---------------------------- MODULE Spec2Model ----------------------------
(***************************************************************************)
(* Order lifecycle core of the storefront backend: allocation of order     *)
(* identifiers, order placement through the four placement handlers, and   *)
(* the order status state machine.                                         *)
(*                                                                         *)
(* A database operation (findOne, findOneAndUpdate, save, ...) is one      *)
(* atomic step.  A handler is cut at its awaits: the synchronous code      *)
(* that runs after one database operation returns is part of the step of   *)
(* that operation, and the next database operation is the next step.       *)
(***************************************************************************)
EXTENDS Integers, Sequences, FiniteSets, Bags, TLC

VARIABLES
  today,      \* the server clock: index of the current calendar day
  counters,   \* OrderCounter collection: dateStr -> seq
  orders,     \* Order collection: a bag of order documents
  req,        \* placement requests in flight (counter-based and scan-based)
  job,        \* status-update / screenshot-upload requests in flight
  last,       \* the response of the latest single-step request
  issued,     \* history: the counter increments in the order they were applied
  products,   \* product collections: collection name -> set of product documents
  modelCache, \* modelCache of getProductModelByCategory: modelName -> handle
  compiled,   \* the model names mongoose has compiled
  call,       \* the latest category request and the modelName it resolved to
  disc,       \* the apply-discount request in flight
  pjob,       \* product update / delete requests in flight
  made,       \* the number of product identifiers generated so far
  categories, \* Category collection: a set of category documents
  cjob,       \* category create / remove requests in flight
  listing     \* the latest response of the category listing

\* the catalog side of the state
directory == <<categories, cjob, listing>>

catalog == <<products, modelCache, compiled, call, disc, pjob, made, directory>>

vars == <<today, counters, orders, req, job, last, issued, catalog>>

---------------------------------------------------------------------------
(* Bounds of the model *)

MaxDay == 2          \* calendar days the clock runs through
MaxReq == 2          \* concurrent multi-step placement requests
MaxJob == 2          \* concurrent multi-step lifecycle requests
MaxRand == 1         \* random suffixes createOrderSimple draws from: 1..MaxRand
MaxProd == 2         \* product documents the catalog grows to
MaxLen == 3          \* length of the category names requests carry

(* Program constants *)

maxAttempts == 5           \* orderRoutes.js: retries of the counter-based route
scanMaxAttempts == 10      \* scan-based handler: retries
suffixWidth == 3           \* padStart(3, '0')
scanSuffixWidth == 2       \* padStart(2, '0')
randomRange == 1000        \* Math.floor(Math.random() * 1000)

---------------------------------------------------------------------------
(* Strings of decimal digits are sequences over 0..9 *)

RECURSIVE Digits(_)
\* String(n), n.toString() for a natural number
Digits(n) == IF n < 10 THEN <<n>> ELSE Append(Digits(n \div 10), n % 10)

RECURSIVE padStart(_, _)
\* s.padStart(w, '0')
padStart(s, w) == IF Len(s) >= w THEN s ELSE padStart(<<0>> \o s, w)

\* s.slice(-2)
sliceLast2(s) == IF Len(s) <= 2 THEN s ELSE SubSeq(s, Len(s) - 1, Len(s))

RECURSIVE parseInt(_)
\* parseInt of a string of digits
parseInt(s) == IF Len(s) = 0 THEN 0
               ELSE 10 * parseInt(SubSeq(s, 1, Len(s) - 1)) + s[Len(s)]

RECURSIVE LexLess(_, _)
\* s < t as JavaScript / MongoDB compare strings
LexLess(s, t) ==
  IF Len(t) = 0 THEN FALSE
  ELSE IF Len(s) = 0 THEN TRUE
  ELSE IF s[1] # t[1] THEN s[1] < t[1]
  ELSE LexLess(Tail(s), Tail(t))

---------------------------------------------------------------------------
(* The server clock.  Day 1 is 31 Dec 2025, day i > 1 is (i-1) Jan 2026.   *)
(* getMonth() is zero-based.                                               *)

Days == 1..MaxDay

Clock(i) == IF i = 1 THEN [year |-> 2025, month |-> 11, date |-> 31]
            ELSE [year |-> 2026, month |-> 0, date |-> i - 1]

\* YYMMDD of the counter-based allocator and of createOrderSimple
dateStrYMD(i) ==
  sliceLast2(Digits(Clock(i).year))
    \o padStart(Digits(Clock(i).month + 1), 2)
    \o padStart(Digits(Clock(i).date), 2)

\* DDMMYY of the scan-based generateOrderId
dateStrDMY(i) ==
  padStart(Digits(Clock(i).date), 2)
    \o padStart(Digits(Clock(i).month + 1), 2)
    \o sliceLast2(Digits(Clock(i).year))

---------------------------------------------------------------------------
(* The Order collection *)

\* new Order({orderId, items, total, customerDetails, status, createdAt})
NewOrder(id, b, st, created) ==
  [ orderId       |-> id,
    items         |-> b.items,
    total         |-> b.total,
    mobile        |-> b.mobile,
    status        |-> st,
    createdAt     |-> created,
    image         |-> "unset",
    verified      |-> "unset",
    transportName |-> "unset",
    lrNumber      |-> "unset" ]

Docs(store) == BagToSet(store)

\* Order.findOne({ orderId }) finds a document
Exists(store, id) == \E o \in Docs(store) : o.orderId = id

Matching(store, id) == {o \in Docs(store) : o.orderId = id}

\* newOrder.save() is never refused
SaveRefusedNever(store, o) == FALSE

\* newOrder.save() is refused (duplicate key) when the identifier is taken
SaveRefused(store, o) == Exists(store, o.orderId)

Insert(store, o) == store (+) SetToBag({o})

\* findOneAndUpdate({ orderId }, { $set: ... }): o2 is o with the fields set
ReplaceOverwriting(store, o, o2) ==
  (store (-) SetToBag({o})) (+) SetToBag({[o2 EXCEPT !.items = <<>>, !.total = 0]})

Replace(store, o, o2) == (store (-) SetToBag({o})) (+) SetToBag({o2})

\* Order.findOneAndDelete({ orderId }) takes the document out
RemoveNothing(store, o) == store

Remove(store, o) == store (-) SetToBag({o})

\* the schema default of status, when the document gives none
DefaultStatus(st) == IF st = "" THEN "confirmed" ELSE st

---------------------------------------------------------------------------
(* Request bodies.  A falsy total is 0; an absent string is "". *)

Items2 == << [price |-> 50, quantity |-> 2], [price |-> 30, quantity |-> 1] >>

Body(hasItems, total, hasCustomer, mobile, status, createdAt, orderId) ==
  [ hasItems |-> hasItems, items |-> IF hasItems THEN Items2 ELSE <<>>,
    total |-> total, hasCustomer |-> hasCustomer, mobile |-> mobile,
    status |-> status, createdAt |-> createdAt, orderId |-> orderId ]

GoodBody == Body(TRUE, 130, TRUE, "m1", "", 0, <<>>)

\* !items || !total || !customerDetails
MissingFields(b) == ~b.hasItems \/ b.total = 0 \/ ~b.hasCustomer

\* createdAt || new Date().toISOString()
CreatedAt(b, now) == IF b.createdAt = 0 THEN now ELSE b.createdAt

---------------------------------------------------------------------------
(* Placement requests *)

Reqs == 1..MaxReq

IdleReq == [ op |-> "none", pc |-> "idle", body |-> GoodBody, day |-> 0,
             dateStr |-> <<>>, orderId |-> <<>>, attempts |-> 0, calls |-> 0,
             createdAt |-> 0, resp |-> "none" ]

NoLast == [ op |-> "none", resp |-> "none", orderId |-> <<>> ]

\* OrderCounter.findOneAndUpdate({_id}, {$inc: {seq: 1}}, {upsert, new})
IncCounterSetOnInsert(cs, k) == IF k \in DOMAIN cs THEN cs ELSE cs @@ (k :> 1)

IncCounter(cs, k) ==
  IF k \in DOMAIN cs THEN [cs EXCEPT ![k] = @ + 1] ELSE cs @@ (k :> 1)

\* counter?.seq || 1
SeqOf(cs, k) == IF cs[k] = 0 THEN 1 ELSE cs[k]

\* `${dateStr}${String(seq).padStart(3, '0')}`
FormatOrderId(dateStr, seq) == dateStr \o padStart(Digits(seq), suffixWidth)


SetReq(r, fields) == req' = [req EXCEPT ![r] = fields]

\* request slots are taken in order: slot r is the r-th request to arrive
Free(r) == req[r].pc = "idle" /\ \A q \in Reqs : q < r => req[q].pc # "idle"

Finish(r, resp) == [req[r] EXCEPT !.pc = "done", !.resp = resp]

---------------------------------------------------------------------------
(* router.post("/place"): the counter-based route *)

\* validation, then the synchronous head of getNextOrderIdForToday
PlaceBeginCounting(r, b) ==
  /\ Free(r)
  /\ counters' = IncCounter(counters, dateStrYMD(today))
  /\ IF MissingFields(b)
       THEN SetReq(r, [Finish(r, "MissingFields") EXCEPT !.op = "place", !.body = b])
       ELSE SetReq(r, [req[r] EXCEPT !.op = "place", !.body = b, !.pc = "inc",
                                     !.day = today, !.dateStr = dateStrYMD(today)])
  /\ UNCHANGED <<today, orders, job, last, issued, catalog>>

PlaceBegin(r, b) ==
  /\ Free(r)
  /\ IF MissingFields(b)
       THEN SetReq(r, [Finish(r, "MissingFields") EXCEPT !.op = "place", !.body = b])
       ELSE SetReq(r, [req[r] EXCEPT !.op = "place", !.body = b, !.pc = "inc",
                                     !.day = today, !.dateStr = dateStrYMD(today)])
  /\ UNCHANGED <<today, counters, orders, job, last, issued, catalog>>

\* the atomic increment, and the identifier formatted from it
PlaceInc(r) ==
  /\ req[r].op = "place" /\ req[r].pc = "inc"
  /\ LET k   == req[r].dateStr
         cs  == IncCounter(counters, k)
         seq == SeqOf(cs, k)
         id  == FormatOrderId(k, seq)
     IN /\ counters' = cs
        /\ issued' = Append(issued, [key |-> k, seq |-> seq, id |-> id,
                                     readOn |-> req[r].day,
                                     fresh |-> k \notin DOMAIN counters])
        /\ SetReq(r, [req[r] EXCEPT !.pc = "find", !.orderId = id,
                                     !.calls = req[r].calls + 1])
  /\ UNCHANGED <<today, orders, job, last, catalog>>

\* attempts >= maxAttempts
RetriesExhaustedLate(attempts) == attempts > maxAttempts

RetriesExhausted(attempts) == attempts >= maxAttempts

\* Order.findOne({ orderId }), and the retry loop around it
PlaceFind(r) ==
  /\ req[r].op = "place" /\ req[r].pc = "find"
  /\ IF ~Exists(orders, req[r].orderId)
       THEN SetReq(r, [req[r] EXCEPT !.pc = "save",
                                     !.createdAt = CreatedAt(req[r].body, today)])
       ELSE IF RetriesExhausted(req[r].attempts + 1)
         THEN SetReq(r, [Finish(r, "IdentifierExhausted")
                           EXCEPT !.attempts = req[r].attempts + 1])
         ELSE SetReq(r, [req[r] EXCEPT !.attempts = req[r].attempts + 1,
                                       !.pc = "inc", !.day = today,
                                       !.dateStr = dateStrYMD(today)])
  /\ UNCHANGED <<today, counters, orders, job, last, issued, catalog>>

\* what fs.existsSync(invoiceDir) and fs.mkdirSync(invoiceDir) may do after
\* the order is saved; the calls stand outside the try blocks of the invoice
\* and the email, whose own failures are caught and logged
InvoiceDirOutcomes == {"exists", "made", "mkdirThrows"}

\* newOrder.save(), the invoice steps and the response
PlaceSaveUnsaved(r) ==
  /\ req[r].op = "place" /\ req[r].pc = "save"
  /\ SetReq(r, Finish(r, "Created"))
  /\ UNCHANGED <<today, counters, orders, job, last, issued, catalog>>

PlaceSave(r) ==
  /\ req[r].op = "place" /\ req[r].pc = "save"
  /\ LET o == NewOrder(req[r].orderId, req[r].body, "confirmed", req[r].createdAt)
     IN IF SaveRefused(orders, o)
          THEN /\ SetReq(r, Finish(r, "InternalError"))
               /\ UNCHANGED orders
          ELSE /\ orders' = Insert(orders, o)
               /\ \E dir \in InvoiceDirOutcomes :
                    SetReq(r, Finish(r, IF dir = "mkdirThrows"
                                          THEN "InternalError" ELSE "Created"))
  /\ UNCHANGED <<today, counters, job, last, issued, catalog>>

---------------------------------------------------------------------------
(* app.post('/api/orders/place') of the earlier server: the scan-based     *)
(* handler                                                                 *)

\* validation, then the synchronous head of generateOrderId
ScanBegin(r, b) ==
  /\ Free(r)
  /\ IF MissingFields(b)
       THEN SetReq(r, [Finish(r, "MissingFields") EXCEPT !.op = "scan", !.body = b])
       ELSE SetReq(r, [req[r] EXCEPT !.op = "scan", !.body = b, !.pc = "gen",
                                     !.day = today, !.dateStr = dateStrDMY(today)])
  /\ UNCHANGED <<today, counters, orders, job, last, issued, catalog>>

\* the orders created within the day the request read
OrdersOfDay(store, d) == {o \in Docs(store) : o.createdAt = d}

\* .sort({ orderId: -1 }): a document no other of the day sorts after
IsLatest(o, S) == \A p \in S : ~LexLess(o.orderId, p.orderId)

\* latestOrder.orderId.match(/^(\d{8})(\d{2})$/), match[1] === dateStr
NextNumber(id, dateStr) ==
  IF Len(id) = 10 /\ SubSeq(id, 1, 8) = dateStr
    THEN parseInt(SubSeq(id, 9, 10)) + 1
    ELSE 1

\* `${dateStr}${nextNumber.toString().padStart(2, '0')}`
FormatScanId(dateStr, n) == dateStr \o padStart(Digits(n), scanSuffixWidth)

\* generateOrderId's query, attempts++, and the bound on the attempts
ScanGen(r) ==
  /\ req[r].op = "scan" /\ req[r].pc = "gen"
  /\ LET S == OrdersOfDay(orders, req[r].day)
     IN \E n \in IF S = {} THEN {1}
                 ELSE {NextNumber(o.orderId, req[r].dateStr) : o \in {p \in S : IsLatest(p, S)}} :
          IF req[r].attempts + 1 > scanMaxAttempts
            THEN SetReq(r, [Finish(r, "IdentifierExhausted")
                              EXCEPT !.attempts = req[r].attempts + 1,
                                     !.calls = req[r].calls + 1,
                                     !.orderId = FormatScanId(req[r].dateStr, n)])
            ELSE SetReq(r, [req[r] EXCEPT !.attempts = req[r].attempts + 1,
                                          !.calls = req[r].calls + 1,
                                          !.pc = "find",
                                          !.orderId = FormatScanId(req[r].dateStr, n)])
  /\ UNCHANGED <<today, counters, orders, job, last, issued, catalog>>

\* while (await Order.findOne({ orderId }))
ScanFind(r) ==
  /\ req[r].op = "scan" /\ req[r].pc = "find"
  /\ IF Exists(orders, req[r].orderId)
       THEN SetReq(r, [req[r] EXCEPT !.pc = "gen", !.day = today,
                                     !.dateStr = dateStrDMY(today)])
       ELSE SetReq(r, [req[r] EXCEPT !.pc = "save",
                                     !.createdAt = CreatedAt(req[r].body, today)])
  /\ UNCHANGED <<today, counters, orders, job, last, issued, catalog>>

\* newOrder.save() and the response
ScanSave(r) ==
  /\ req[r].op = "scan" /\ req[r].pc = "save"
  /\ LET o == NewOrder(req[r].orderId, req[r].body, "confirmed", req[r].createdAt)
     IN IF SaveRefused(orders, o)
          THEN /\ SetReq(r, Finish(r, "InternalError"))
               /\ UNCHANGED orders
          ELSE /\ orders' = Insert(orders, o)
               /\ SetReq(r, Finish(r, "Created"))
  /\ UNCHANGED <<today, counters, job, last, issued, catalog>>

---------------------------------------------------------------------------
(* createOrderSimple (POST /api/orders and the backup POST /api/orders/    *)
(* place) and router.post("/place-order"): one database operation each     *)

\* rnd is Math.floor(Math.random() * 1000)
createOrderSimple(b, rnd) ==
  /\ rnd \in 0..(randomRange - 1)
  /\ LET id == dateStrYMD(today) \o padStart(Digits(rnd), suffixWidth)
         o  == NewOrder(id, b, "confirmed", CreatedAt(b, today))
     IN IF MissingFields(b)
          THEN /\ last' = [op |-> "simple", resp |-> "MissingFields", orderId |-> <<>>]
               /\ UNCHANGED orders
          ELSE IF SaveRefused(orders, o)
            THEN /\ last' = [op |-> "simple", resp |-> "InternalError", orderId |-> id]
                 /\ UNCHANGED orders
            ELSE /\ orders' = Insert(orders, o)
                 /\ last' = [op |-> "simple", resp |-> "Created", orderId |-> id]
  /\ UNCHANGED <<today, counters, req, job, issued, catalog>>

\* the body carries the identifier and the status; an absent status or
\* createdAt is filled in by the schema
PlaceOrderRoute(b) ==
  /\ LET o == NewOrder(b.orderId, b, DefaultStatus(b.status), CreatedAt(b, today))
     IN IF b.orderId = <<>> \/ MissingFields(b)
          THEN /\ last' = [op |-> "placeOrder", resp |-> "MissingFields", orderId |-> <<>>]
               /\ UNCHANGED orders
          ELSE IF SaveRefused(orders, o)
            THEN /\ last' = [op |-> "placeOrder", resp |-> "InternalError",
                             orderId |-> b.orderId]
                 /\ UNCHANGED orders
            ELSE /\ orders' = Insert(orders, o)
                 /\ last' = [op |-> "placeOrder", resp |-> "Created",
                             orderId |-> b.orderId]
  /\ UNCHANGED <<today, counters, req, job, issued, catalog>>

\* midnight
Tick ==
  /\ today < MaxDay
  /\ today' = today + 1
  /\ UNCHANGED <<counters, orders, req, job, last, issued, catalog>>

---------------------------------------------------------------------------
(* The order status state machine.  A single-step request answers in       *)
(* `last`; updateStatus by status and the screenshot upload read first and *)
(* write in a second database operation, and hold a slot of `job` between. *)

Jobs == 1..MaxJob

IdleJob == [ pc |-> "idle", orderId |-> <<>>, status |-> "" ]

\* slots are interchangeable: a request takes the lowest idle one
FreeJob(j) == job[j].pc = "idle" /\ \A i \in Jobs : i < j => job[i].pc # "idle"

Answer(op, id, resp) == last' = [op |-> op, resp |-> resp, orderId |-> id]

\* validTransitions of the update-status handler
validTransitionsLoose ==
  [ confirmed        |-> {"payment_verified", "booked"},
    payment_verified |-> {"booked", "confirmed"},
    booked           |-> {"booked", "confirmed"} ]

validTransitions ==
  [ confirmed        |-> {"payment_verified", "booked"},
    payment_verified |-> {"booked"},
    booked           |-> {"booked"} ]

\* a string of the body is truthy: neither absent ("unset") nor empty
Truthy(x) == x \notin {"unset", ""}

\* x || ''
OrEmpty(x) == IF Truthy(x) THEN x ELSE ""

\* updateFields of a request that carries transportName or lrNumber
TransportFieldsRaw(o, tn, lr) ==
  [o EXCEPT !.transportName = tn, !.lrNumber = lr, !.status = "booked"]

TransportFields(o, tn, lr) ==
  [o EXCEPT !.transportName = OrEmpty(tn), !.lrNumber = OrEmpty(lr),
            !.status = "booked"]

\* app.patch('/api/orders/update-status/:orderId'), up to its first write
UpdateStatusBegin(j, id, st, tn, lr) ==
  /\ FreeJob(j)
  /\ IF Truthy(tn) \/ Truthy(lr)
       THEN \* findOneAndUpdate({ orderId }, { $set: updateFields })
            /\ IF Exists(orders, id)
                 THEN \E o \in Matching(orders, id) :
                        /\ orders' = Replace(orders, o, TransportFields(o, tn, lr))
                        /\ Answer("updateStatus", id, "Ok")
                 ELSE /\ Answer("updateStatus", id, "NotFound")
                      /\ UNCHANGED orders
            /\ UNCHANGED job
       ELSE IF st # ""
         THEN \* findOne({ orderId }) and the transition table
              /\ UNCHANGED orders
              /\ IF ~Exists(orders, id)
                   THEN Answer("updateStatus", id, "NotFound") /\ UNCHANGED job
                   ELSE \E o \in Matching(orders, id) :
                     IF o.status \notin DOMAIN validTransitions
                       THEN Answer("updateStatus", id, "InternalError") /\ UNCHANGED job
                       ELSE IF st \notin validTransitions[o.status]
                         THEN Answer("updateStatus", id, "InvalidTransition")
                              /\ UNCHANGED job
                         ELSE /\ job' = [job EXCEPT ![j] =
                                   [pc |-> "write", orderId |-> id, status |-> st]]
                              /\ UNCHANGED last
         ELSE /\ Answer("updateStatus", id, "BadRequest")
              /\ UNCHANGED <<orders, job>>
  /\ UNCHANGED <<today, counters, req, issued, catalog>>

\* findOneAndUpdate({ orderId }, { $set: { status } }) of the status path
UpdateStatusWrite(j) ==
  /\ job[j].pc = "write"
  /\ IF Exists(orders, job[j].orderId)
       THEN \E o \in Matching(orders, job[j].orderId) :
              /\ orders' = Replace(orders, o, [o EXCEPT !.status = job[j].status])
              /\ Answer("updateStatus", job[j].orderId, "Ok")
       ELSE /\ Answer("updateStatus", job[j].orderId, "NotFound")
            /\ UNCHANGED orders
  /\ job' = [job EXCEPT ![j] = IdleJob]
  /\ UNCHANGED <<today, counters, req, issued, catalog>>

\* status: verified ? 'payment_verified' : 'confirmed'
VerifiedStatusSticky(o, verified) ==
  IF verified = "true" THEN "payment_verified"
  ELSE IF o.status = "booked" THEN "booked" ELSE "confirmed"

VerifiedStatus(o, verified) ==
  IF verified = "true" THEN "payment_verified" ELSE "confirmed"

\* app.patch('/api/orders/verify-payment/:orderId'); verified is "true",
\* "false", or "" for a value that is no boolean
VerifyPayment(id, verified) ==
  /\ IF verified \notin {"true", "false"}
       THEN Answer("verifyPayment", id, "BadRequest") /\ UNCHANGED orders
       ELSE IF Exists(orders, id)
         THEN \E o \in Matching(orders, id) :
                /\ orders' = Replace(orders, o,
                     [o EXCEPT !.verified = verified,
                               !.status = VerifiedStatus(o, verified)])
                /\ Answer("verifyPayment", id, "Ok")
         ELSE Answer("verifyPayment", id, "NotFound") /\ UNCHANGED orders
  /\ UNCHANGED <<today, counters, req, job, issued, catalog>>

\* app.post('/api/orders/upload-payment'), up to the ownership check
UploadBegin(j, id, mobile, hasFile) ==
  /\ FreeJob(j)
  /\ IF id = <<>> \/ mobile = "" \/ ~hasFile
       THEN Answer("uploadPayment", id, "BadRequest") /\ UNCHANGED job
       ELSE IF \E o \in Matching(orders, id) : o.mobile = mobile
         THEN /\ job' = [job EXCEPT ![j] =
                   [pc |-> "attach", orderId |-> id, status |-> ""]]
              /\ UNCHANGED last
         ELSE Answer("uploadPayment", id, "NotFound") /\ UNCHANGED job
  /\ UNCHANGED <<today, counters, orders, req, issued, catalog>>

\* findOneAndUpdate({ orderId }, { $set: paymentScreenshot... }), res.json
UploadWrite(j) ==
  /\ job[j].pc = "attach"
  /\ IF Exists(orders, job[j].orderId)
       THEN \E o \in Matching(orders, job[j].orderId) :
              orders' = Replace(orders, o, [o EXCEPT !.image = "img", !.verified = "false"])
       ELSE UNCHANGED orders
  /\ Answer("uploadPayment", job[j].orderId, "Ok")
  /\ job' = [job EXCEPT ![j] = IdleJob]
  /\ UNCHANGED <<today, counters, req, issued, catalog>>

\* app.delete('/api/orders/cancel/:orderId'): findOneAndDelete
CancelOrder(id) ==
  /\ IF Exists(orders, id)
       THEN \E o \in Matching(orders, id) :
              orders' = Remove(orders, o) /\ Answer("cancelOrder", id, "Ok")
       ELSE Answer("cancelOrder", id, "NotFound") /\ UNCHANGED orders
  /\ UNCHANGED <<today, counters, req, job, issued, catalog>>

\* the lookup filters on the identifier alone
TrackOrderById(id, mobile) ==
  /\ IF id = <<>> \/ mobile = ""
       THEN Answer("track", id, "BadRequest")
       ELSE IF Exists(orders, id)
         THEN Answer("track", id, "Ok")
         ELSE Answer("track", id, "NotFound")
  /\ UNCHANGED <<today, counters, orders, req, job, directory, issued, catalog>>

\* app.get('/api/orders/track')
TrackOrder(id, mobile) ==
  /\ IF id = <<>> \/ mobile = ""
       THEN Answer("track", id, "BadRequest")
       ELSE IF \E o \in Matching(orders, id) : o.mobile = mobile
         THEN Answer("track", id, "Ok")
         ELSE Answer("track", id, "NotFound")
  /\ UNCHANGED <<today, counters, orders, req, job, directory, issued, catalog>>

---------------------------------------------------------------------------
(* The catalog: getProductModelByCategory and the product handlers.  A     *)
(* category name is a sequence of characters.                              *)

\* \s of a regular expression
Whitespace == {" ", "\t"}

UpperLetters == {"A", "B"}

DigitChars == {"0", "1"}

\* c.toUpperCase() of one character
UpperChar(c) == IF c = "a" THEN "A" ELSE IF c = "b" THEN "B" ELSE c

\* s.toUpperCase()
toUpperCase(s) == [i \in 1..Len(s) |-> UpperChar(s[i])]

RECURSIVE SkipWhitespace(_)
\* s without its leading run of whitespace
SkipWhitespace(s) ==
  IF Len(s) > 0 /\ Head(s) \in Whitespace THEN SkipWhitespace(Tail(s)) ELSE s

\* s.replace(/\s+/g, '_'): every run of whitespace becomes one underscore
replaceFirstWhitespace(s) ==
  IF \E i \in 1..Len(s) : s[i] \in Whitespace
    THEN LET i == CHOOSE i \in 1..Len(s) :
                    s[i] \in Whitespace /\ \A k \in 1..(i - 1) : s[k] \notin Whitespace
         IN SubSeq(s, 1, i - 1) \o <<"_">> \o SkipWhitespace(SubSeq(s, i, Len(s)))
    ELSE s

RECURSIVE replaceWhitespace(_)
replaceWhitespace(s) ==
  IF Len(s) = 0 THEN <<>>
  ELSE IF Head(s) \in Whitespace
    THEN <<"_">> \o replaceWhitespace(SkipWhitespace(s))
    ELSE <<Head(s)>> \o replaceWhitespace(Tail(s))

\* const modelName = category.replace(/\s+/g, '_').toUpperCase()
modelName(category) == toUpperCase(replaceWhitespace(category))

\* modelName.replace(/_/g, ' ')
underscoresToSpaces(s) == [i \in 1..Len(s) |-> IF s[i] = "_" THEN " " ELSE s[i]]

\* /^[A-Z0-9_]+$/.test(name)
MatchesPattern(s) ==
  /\ Len(s) > 0
  /\ \A i \in 1..Len(s) : s[i] \in UpperLetters \cup DigitChars \cup {"_"}

NoCache == [k \in {} |-> 0]

NoCall == [category |-> <<>>, modelName |-> <<>>, pc |-> "none"]

\* !modelCache[modelName] is false: the cache holds a handle
CachedNever(cache, k) == FALSE

Cached(cache, k) == k \in DOMAIN cache

\* getProductModelByCategory(category): the cache, the compiled models and
\* the handle after the call.  mongoose.model(name, schema, collection)
\* throws OverwriteModelError when it has compiled a model of that name.
getProductModelByCategory(category) ==
  LET k == modelName(category)
  IN IF Cached(modelCache, k)
       THEN [cache |-> modelCache, compiled |-> compiled, modelName |-> k,
             threw |-> FALSE]
       ELSE IF k \in compiled
         THEN [cache |-> modelCache, compiled |-> compiled, modelName |-> k,
               threw |-> TRUE]
         ELSE [cache |-> [x \in DOMAIN modelCache \cup {k} |->
                            IF x = k
                              THEN [collection |-> k,
                                    serial |-> Cardinality(compiled) + 1]
                              ELSE modelCache[x]],
               compiled |-> compiled \cup {k}, modelName |-> k, threw |-> FALSE]

\* the state after a call of getProductModelByCategory
Resolved(category, m) ==
  /\ modelCache' = m.cache
  /\ compiled' = m.compiled
  /\ call' = [category |-> category, modelName |-> m.modelName,
              pc |-> IF m.threw THEN "threw" ELSE "done"]

\* the documents of a collection (none when the collection does not exist)
DocsIn(store, c) == IF c \in DOMAIN store THEN store[c] ELSE {}

\* the number of product documents in all collections
ProductCount(store) ==
  Cardinality(UNION {{<<c, d>> : d \in store[c]} : c \in DOMAIN store})

\* store with the documents of collection c set to S
WithDocs(store, c, S) ==
  [x \in DOMAIN store \cup {c} |-> IF x = c THEN S ELSE store[x]]

\* new ProductModel({...}): productSchema has the paths name_en, name_ta,
\* price and imageUrl; a value for another path is not stored.  The field
\* original is the set of the document's original_price values: empty when
\* the document has none.
NewProduct(b, id) ==
  [id |-> id, name |-> b.name, price |-> b.price, original |-> {}]

\* !name_en || !name_ta || !price || !category || !finalImageUrl
ProductFieldsMissing(b) ==
  b.name = "" \/ b.price = 0 \/ Len(b.category) = 0 \/ ~b.hasImage

\* app.post('/api/products')
AddProduct(b) ==
  /\ made < MaxProd
  /\ IF ProductFieldsMissing(b)
       THEN /\ Answer("addProduct", <<>>, "MissingFields")
            /\ UNCHANGED <<products, modelCache, compiled, call, made>>
       ELSE LET m == getProductModelByCategory(b.category)
                c == m.modelName
            IN /\ Resolved(b.category, m)
               /\ IF m.threw
                    THEN Answer("addProduct", <<>>, "InternalError")
                         /\ UNCHANGED <<products, made>>
                    ELSE /\ products' = WithDocs(products, c,
                              DocsIn(products, c) \cup {NewProduct(b, made + 1)})
                         /\ made' = made + 1
                         /\ Answer("addProduct", <<>>, "Created")
  /\ UNCHANGED <<today, counters, orders, req, job, directory, issued, disc, pjob>>

\* app.get('/api/products/category/:category')
ListByCategory(category) ==
  /\ LET m == getProductModelByCategory(category)
     IN /\ Resolved(category, m)
        /\ Answer("listByCategory", <<>>, IF m.threw THEN "InternalError" ELSE "Ok")
  /\ UNCHANGED <<today, counters, orders, req, job, directory, issued, products, disc,
                 pjob, made>>

\* app.post('/api/products/apply-discount'): one database operation a step

NoProducts == [c \in {} |-> {}]

IdleDisc == [pc |-> "idle", discount |-> 0, todo |-> {}, updated |-> 0,
             before |-> NoProducts, faulted |-> {}]

\* the collections of the database that are no product collections
OtherCollections == {<<"o", "r", "d", "e", "r", "s">>}

\* mongoose.connection.db.listCollections()
listCollections(store) == DOMAIN store \cup OtherCollections

\* typeof discount !== 'number' || discount < 0 || discount > 100
InvalidDiscount(d) == ~d.isNumber \/ d.value < 0 \/ d.value > 100

\* { $round: [{ $multiply: ["$original_price", (1 - discount / 100)] }, 0] }:
\* the factor and the product are binary floating point numbers, so a
\* product that is a tie in exact arithmetic may fall on either side
RoundedPrices(original, d) ==
  LET n == original * (100 - d)
      q == n \div 100
      r == n % 100
  IN IF 2 * r < 100 THEN {q} ELSE IF 2 * r > 100 THEN {q + 1} ELSE {q, q + 1}

\* { original_price: { $exists: true, $ne: null } }
HasOriginal(p) == p.original # {}

\* the prices updateMany may leave in document p
PricesAfter(p, d) ==
  IF HasOriginal(p)
    THEN UNION {RoundedPrices(o, d) : o \in p.original}
    ELSE {p.price}

\* validation and listCollections()
ApplyBegin(d) ==
  /\ disc.pc \in {"idle", "done"}
  /\ IF InvalidDiscount(d)
       THEN Answer("applyDiscount", <<>>, "InvalidDiscount") /\ UNCHANGED disc
       ELSE /\ disc' = [pc |-> "scan", discount |-> d.value,
                        todo |-> listCollections(products), updated |-> 0,
                        before |-> products, faulted |-> {}]
            /\ UNCHANGED last
  /\ UNCHANGED <<today, counters, orders, req, job, directory, issued,
                 products, modelCache, compiled, call, pjob, made>>

\* one turn of the loop over the collections: the pattern test, the model
\* of the collection and Model.updateMany
ApplyStep ==
  /\ disc.pc = "scan"
  /\ \E c \in disc.todo :
       IF ~MatchesPattern(c)
         THEN /\ disc' = [disc EXCEPT !.todo = @ \ {c}]
              /\ UNCHANGED <<last, products, modelCache, compiled, call>>
         ELSE LET m == getProductModelByCategory(underscoresToSpaces(c))
                  t == m.modelName
                  S == DocsIn(products, t)
              IN /\ Resolved(underscoresToSpaces(c), m)
                 /\ IF m.threw
                      THEN /\ Answer("applyDiscount", <<>>, "InternalError")
                           /\ disc' = [disc EXCEPT !.pc = "done"]
                           /\ UNCHANGED products
                      ELSE \E f \in [S -> UNION {PricesAfter(p, disc.discount) : p \in S}] :
                             /\ \A p \in S : f[p] \in PricesAfter(p, disc.discount)
                             /\ products' =
                                  IF t \in DOMAIN products
                                    THEN WithDocs(products, t,
                                           {[p EXCEPT !.price = f[p]] : p \in S})
                                    ELSE products
                             /\ disc' = [disc EXCEPT
                                  !.todo = @ \ {c},
                                  !.updated = @ + Cardinality({p \in S : f[p] # p.price})]
                             /\ UNCHANGED last
  /\ UNCHANGED <<today, counters, orders, req, job, directory, issued, pjob, made>>

\* one turn of the loop in which Model.updateMany rejects: the rejection
\* leaves the loop and reaches the catch of the handler
ApplyFault ==
  /\ disc.pc = "scan"
  /\ \E c \in disc.todo :
       /\ MatchesPattern(c)
       /\ LET m == getProductModelByCategory(underscoresToSpaces(c))
          IN /\ Resolved(underscoresToSpaces(c), m)
             /\ disc' = [disc EXCEPT !.pc = "done",
                                     !.faulted = IF m.threw THEN @ ELSE @ \cup {c}]
             /\ Answer("applyDiscount", <<>>, "InternalError")
  /\ UNCHANGED <<today, counters, orders, req, job, directory, issued, products, pjob, made>>

\* the response after the loop
ApplyEnd ==
  /\ disc.pc = "scan" /\ disc.todo = {}
  /\ disc' = [disc EXCEPT !.pc = "done"]
  /\ Answer("applyDiscount", <<>>, "Ok")
  /\ UNCHANGED <<today, counters, orders, req, job, directory, issued,
                 products, modelCache, compiled, call, pjob, made>>

\* --- app.put('/api/products/:id') and app.delete('/api/products/:id') ---

\* a product update / delete request that has not arrived.  category is
\* the category of the body (empty when the body has none), price the set
\* of the body's price values (empty when the body has none; the other
\* optional fields of the body are handled as price is), found the
\* collection name the scan stopped at and doc the document it read there.
IdlePJob == [op |-> "none", pc |-> "idle", id |-> 0, category |-> <<>>,
             price |-> {}, todo |-> {}, found |-> <<>>, doc |-> {},
             newId |-> 0, resp |-> "none"]

\* slots are interchangeable: a request takes the lowest idle one
FreePJob(j) == pjob[j].pc = "idle" /\ \A i \in Jobs : i < j => pjob[i].pc # "idle"

\* identifiers the catalog requests may generate in all
MaxId == MaxProd + 1

\* Model.findById(id) on collection c
FindById(store, c, id) == {p \in DocsIn(store, c) : p.id = id}

\* store without the document id of collection c (findByIdAndDelete)
WithoutId(store, c, id) ==
  IF c \in DOMAIN store
    THEN WithDocs(store, c, {p \in store[c] : p.id # id})
    ELSE store

\* foundDoc.category: productSchema has no path category, so the document
\* read through the model has none
DocCategory(p) == <<>>

\* category && foundDoc.category !== category
isCategoryChange(category, p) == Len(category) > 0 /\ DocCategory(p) # category

\* the insert stores nothing
WithNewDropped(store, c, p) == store

\* store after Model.create(p) on collection c
WithNew(store, c, p) == WithDocs(store, c, DocsIn(store, c) \cup {p})

\* the request ends with response resp
PAnswer(j, op, resp) ==
  /\ pjob' = [pjob EXCEPT ![j].pc = "done", ![j].resp = resp]
  /\ Answer(op, <<>>, resp)

\* the request of the handler arrives: listCollections()
UpdateProductBegin(j, id, category, price) ==
  /\ FreePJob(j)
  /\ made < MaxId
  /\ pjob' = [pjob EXCEPT ![j] =
       [IdlePJob EXCEPT !.op = "update", !.pc = "scan", !.id = id,
                        !.category = category, !.price = price,
                        !.todo = listCollections(products)]]
  /\ UNCHANGED <<today, counters, orders, req, job, directory, last, issued,
                 products, modelCache, compiled, call, disc, made>>

\* one turn of the loop that looks for the document: the pattern test, the
\* model of the collection and Model.findById; after the last turn the 404
UpdateProductFind(j) ==
  /\ pjob[j].op = "update" /\ pjob[j].pc = "scan"
  /\ IF pjob[j].todo = {}
       THEN /\ PAnswer(j, "updateProduct", "NotFound")
            /\ UNCHANGED <<modelCache, compiled, call>>
       ELSE \E c \in pjob[j].todo :
         IF ~MatchesPattern(c)
           THEN /\ pjob' = [pjob EXCEPT ![j].todo = @ \ {c}]
                /\ UNCHANGED <<last, modelCache, compiled, call>>
           ELSE LET m == getProductModelByCategory(underscoresToSpaces(c))
                    D == FindById(products, m.modelName, pjob[j].id)
                IN /\ Resolved(underscoresToSpaces(c), m)
                   /\ IF m.threw
                        THEN PAnswer(j, "updateProduct", "InternalError")
                        ELSE IF D = {}
                          THEN /\ pjob' = [pjob EXCEPT ![j].todo = @ \ {c}]
                               /\ UNCHANGED last
                          ELSE /\ \E p \in D :
                                    pjob' = [pjob EXCEPT
                                      ![j].found = c, ![j].doc = {p},
                                      ![j].pc = IF isCategoryChange(pjob[j].category, p)
                                                  THEN "create" ELSE "write"]
                               /\ UNCHANGED last
  /\ UNCHANGED <<today, counters, orders, req, job, directory, issued, products, disc, made>>

\* the category changes: NewModel.create(newPayload).  The payload has no
\* _id, so the document gets a new one; original_price is no path of the
\* schema.
UpdateProductCreate(j) ==
  /\ pjob[j].op = "update" /\ pjob[j].pc = "create"
  /\ LET m == getProductModelByCategory(pjob[j].category)
         t == m.modelName
     IN /\ Resolved(pjob[j].category, m)
        /\ IF m.threw
             THEN PAnswer(j, "updateProduct", "InternalError")
                  /\ UNCHANGED <<products, made>>
             ELSE /\ \E p \in pjob[j].doc :
                       products' = WithNew(products, t,
                           [id |-> made + 1, name |-> p.name,
                            price |-> IF pjob[j].price = {} THEN p.price
                                      ELSE CHOOSE v \in pjob[j].price : TRUE,
                            original |-> {}])
                  /\ made' = made + 1
                  /\ pjob' = [pjob EXCEPT ![j].pc = "deleteOld",
                                          ![j].newId = made + 1]
                  /\ UNCHANGED last
  /\ UNCHANGED <<today, counters, orders, req, job, directory, issued, disc>>

\* OldModel.findByIdAndDelete(foundDoc._id) and the response
UpdateProductDeleteOld(j) ==
  /\ pjob[j].op = "update" /\ pjob[j].pc = "deleteOld"
  /\ LET m == getProductModelByCategory(underscoresToSpaces(pjob[j].found))
     IN /\ Resolved(underscoresToSpaces(pjob[j].found), m)
        /\ IF m.threw
             THEN PAnswer(j, "updateProduct", "InternalError")
                  /\ UNCHANGED products
             ELSE /\ products' = WithoutId(products, m.modelName, pjob[j].id)
                  /\ PAnswer(j, "updateProduct", "Moved")
  /\ UNCHANGED <<today, counters, orders, req, job, directory, issued, disc, made>>

\* the category does not change: Model.findByIdAndUpdate(foundDoc._id,
\* { $set: updateFields }) and the response
UpdateProductWrite(j) ==
  /\ pjob[j].op = "update" /\ pjob[j].pc = "write"
  /\ LET m == getProductModelByCategory(underscoresToSpaces(pjob[j].found))
         t == m.modelName
     IN /\ Resolved(underscoresToSpaces(pjob[j].found), m)
        /\ IF m.threw
             THEN PAnswer(j, "updateProduct", "InternalError")
                  /\ UNCHANGED products
             ELSE /\ products' =
                       IF t \in DOMAIN products
                         THEN WithDocs(products, t,
                                {IF p.id = pjob[j].id /\ pjob[j].price # {}
                                   THEN [p EXCEPT !.price = CHOOSE v \in pjob[j].price : TRUE]
                                   ELSE p : p \in products[t]})
                         ELSE products
                  /\ PAnswer(j, "updateProduct", "Ok")
  /\ UNCHANGED <<today, counters, orders, req, job, directory, issued, disc, made>>

\* NewModel.create or OldModel.findByIdAndDelete rejects (or the process
\* stops there): the store stays as the step found it, and the catch of
\* the handler answers
UpdateProductFault(j) ==
  /\ pjob[j].op = "update" /\ pjob[j].pc \in {"create", "deleteOld"}
  /\ PAnswer(j, "updateProduct", "InternalError")
  /\ UNCHANGED <<today, counters, orders, req, job, directory, issued,
                 products, modelCache, compiled, call, disc, made>>

\* the request of the delete handler arrives: listCollections()
DeleteProductBegin(j, id) ==
  /\ FreePJob(j)
  /\ pjob' = [pjob EXCEPT ![j] =
       [IdlePJob EXCEPT !.op = "delete", !.pc = "scan", !.id = id,
                        !.todo = listCollections(products)]]
  /\ UNCHANGED <<today, counters, orders, req, job, directory, last, issued,
                 products, modelCache, compiled, call, disc, made>>

\* one turn of the loop: the pattern test, the model of the collection and
\* Model.findByIdAndDelete; after the last turn the 404
DeleteProductStep(j) ==
  /\ pjob[j].op = "delete" /\ pjob[j].pc = "scan"
  /\ IF pjob[j].todo = {}
       THEN /\ PAnswer(j, "deleteProduct", "NotFound")
            /\ UNCHANGED <<products, modelCache, compiled, call>>
       ELSE \E c \in pjob[j].todo :
         IF ~MatchesPattern(c)
           THEN /\ pjob' = [pjob EXCEPT ![j].todo = @ \ {c}]
                /\ UNCHANGED <<last, products, modelCache, compiled, call>>
           ELSE LET m == getProductModelByCategory(underscoresToSpaces(c))
                    t == m.modelName
                IN /\ Resolved(underscoresToSpaces(c), m)
                   /\ IF m.threw
                        THEN PAnswer(j, "deleteProduct", "InternalError")
                             /\ UNCHANGED products
                        ELSE IF FindById(products, t, pjob[j].id) = {}
                          THEN /\ pjob' = [pjob EXCEPT ![j].todo = @ \ {c}]
                               /\ UNCHANGED <<last, products>>
                          ELSE /\ products' = WithoutId(products, t, pjob[j].id)
                               /\ pjob' = [pjob EXCEPT ![j].found = c,
                                                       ![j].pc = "done",
                                                       ![j].resp = "Ok"]
                               /\ Answer("deleteProduct", <<>>, "Ok")
  /\ UNCHANGED <<today, counters, orders, req, job, directory, issued, disc, made>>

\* --- the category directory ---

RECURSIVE trim(_)
\* s.trim()
trim(s) ==
  IF Len(s) > 0 /\ s[1] \in Whitespace THEN trim(Tail(s))
  ELSE IF Len(s) > 0 /\ s[Len(s)] \in Whitespace THEN trim(SubSeq(s, 1, Len(s) - 1))
  ELSE s

\* name.trim().toUpperCase()
trimmedName(name) == toUpperCase(trim(name))

IdleCJob == [op |-> "none", pc |-> "idle", name |-> <<>>, displayName |-> <<>>]

\* slots are interchangeable: a request takes the lowest idle one
FreeCJob(j) == cjob[j].pc = "idle" /\ \A i \in Jobs : i < j => cjob[i].pc # "idle"

\* the lookup passes over the documents that are not active
FindCategoryActive(n) == {d \in categories : d.name = n /\ d.isActive}

\* Category.findOne({ name })
FindCategory(n) == {d \in categories : d.name = n}

\* categorySchema.index({ name: 1 }, { unique: true }) refuses the insert
IndexRefuses(n) == \E d \in categories : d.name = n

\* app.post('/api/categories'): validation and Category.findOne
AddCategoryBegin(j, name) ==
  /\ FreeCJob(j)
  /\ IF Len(trim(name)) = 0
       THEN /\ Answer("addCategory", <<>>, "MissingFields")
            /\ UNCHANGED cjob
       ELSE IF FindCategory(trimmedName(name)) # {}
         THEN /\ Answer("addCategory", trimmedName(name), "DuplicateCategory")
              /\ UNCHANGED cjob
         ELSE /\ cjob' = [cjob EXCEPT ![j] =
                   [op |-> "add", pc |-> "save", name |-> trimmedName(name),
                    displayName |-> trim(name)]]
              /\ UNCHANGED last
  /\ UNCHANGED <<today, counters, orders, req, job, issued, products,
                 modelCache, compiled, call, disc, pjob, made, categories, listing>>

\* newCategory.save() and the response
AddCategorySave(j) ==
  /\ cjob[j].op = "add" /\ cjob[j].pc = "save"
  /\ IF IndexRefuses(cjob[j].name)
       THEN /\ Answer("addCategory", cjob[j].name, "InternalError")
            /\ UNCHANGED categories
       ELSE /\ categories' = categories \cup
                 {[name |-> cjob[j].name, displayName |-> cjob[j].displayName,
                   isActive |-> TRUE]}
            /\ Answer("addCategory", cjob[j].name, "Created")
  /\ cjob' = [cjob EXCEPT ![j] = IdleCJob]
  /\ UNCHANGED <<today, counters, orders, req, job, issued, products,
                 modelCache, compiled, call, disc, pjob, made, listing>>

\* app.delete('/api/categories/:name'): validation and Category.findOne
RemoveCategoryBegin(j, name) ==
  /\ FreeCJob(j)
  /\ IF Len(name) = 0
       THEN /\ Answer("removeCategory", <<>>, "MissingFields")
            /\ UNCHANGED cjob
       ELSE IF FindCategory(name) = {}
         THEN /\ Answer("removeCategory", name, "NotFound")
              /\ UNCHANGED cjob
         ELSE /\ cjob' = [cjob EXCEPT ![j] =
                   [op |-> "remove", pc |-> "write", name |-> name,
                    displayName |-> <<>>]]
              /\ UNCHANGED last
  /\ UNCHANGED <<today, counters, orders, req, job, issued, products,
                 modelCache, compiled, call, disc, pjob, made, categories, listing>>

\* the update leaves the flag as it is
LeftActive(d) == d

\* the document d after { isActive: false }
Deactivated(d) == [d EXCEPT !.isActive = FALSE]

\* Category.findOneAndUpdate({ name }, { isActive: false }) and the response
RemoveCategoryWrite(j) ==
  /\ cjob[j].op = "remove" /\ cjob[j].pc = "write"
  /\ categories' = {IF d.name = cjob[j].name THEN Deactivated(d) ELSE d :
                      d \in categories}
  /\ Answer("removeCategory", cjob[j].name, "Ok")
  /\ cjob' = [cjob EXCEPT ![j] = IdleCJob]
  /\ UNCHANGED <<today, counters, orders, req, job, issued, products,
                 modelCache, compiled, call, disc, pjob, made, listing>>

\* app.patch('/api/categories/:name'): validation and Category.findOne
EditCategoryBegin(j, name, displayName) ==
  /\ FreeCJob(j)
  /\ IF Len(trim(displayName)) = 0
       THEN /\ Answer("editCategory", <<>>, "MissingFields")
            /\ UNCHANGED cjob
       ELSE IF FindCategory(name) = {}
         THEN /\ Answer("editCategory", name, "NotFound")
              /\ UNCHANGED cjob
         ELSE /\ cjob' = [cjob EXCEPT ![j] =
                   [op |-> "edit", pc |-> "write", name |-> name,
                    displayName |-> trim(displayName)]]
              /\ UNCHANGED last
  /\ UNCHANGED <<today, counters, orders, req, job, issued, products,
                 modelCache, compiled, call, disc, pjob, made, categories, listing>>

\* Category.updateOne({ name }, { $set: { displayName, updatedAt } }) and
\* the response
EditCategoryWrite(j) ==
  /\ cjob[j].op = "edit" /\ cjob[j].pc = "write"
  /\ categories' = {IF d.name = cjob[j].name
                        THEN [d EXCEPT !.displayName = cjob[j].displayName]
                        ELSE d : d \in categories}
  /\ Answer("editCategory", cjob[j].name, "Ok")
  /\ cjob' = [cjob EXCEPT ![j] = IdleCJob]
  /\ UNCHANGED <<today, counters, orders, req, job, issued, products,
                 modelCache, compiled, call, disc, pjob, made, listing>>

\* app.get('/api/categories'): the names of Category.find({ isActive: true })
ListCategories ==
  /\ listing' = {d.name : d \in {x \in categories : x.isActive}}
  /\ Answer("listCategories", <<>>, "Ok")
  /\ UNCHANGED <<today, counters, orders, req, job, issued, products,
                 modelCache, compiled, call, disc, pjob, made, categories, cjob>>

\* no category request was served yet
IdleDirectory ==
  /\ categories = {}
  /\ cjob = [j \in Jobs |-> IdleCJob]
  /\ listing = {}

\* no catalog request was served yet
IdleCatalog ==
  /\ products = NoProducts
  /\ modelCache = NoCache
  /\ compiled = {}
  /\ call = NoCall
  /\ disc = IdleDisc
  /\ pjob = [j \in Jobs |-> IdlePJob]
  /\ made = 0
  /\ IdleDirectory

---------------------------------------------------------------------------
(* Specifications *)

NoCounters == [k \in {} |-> 0]

\* identifiers 001..005 of day 1 taken by earlier fallback placements
\* (createOrderSimple draws its suffix at random)
\* and identifier 01 of day 1 taken by an earlier scan-based placement
TakenStore ==
  SetToBag({NewOrder(dateStrYMD(1) \o padStart(Digits(n), suffixWidth),
                     GoodBody, "confirmed", 1) : n \in 1..maxAttempts}
           \cup {NewOrder(FormatScanId(dateStrDMY(1), 1), GoodBody, "confirmed", 1)})

InitCommon ==
  /\ today = 1
  /\ req = [r \in Reqs |-> IdleReq]
  /\ job = [j \in Jobs |-> IdleJob]
  /\ last = NoLast
  /\ issued = <<>>
  /\ IdleCatalog

\* --- identifier allocation and placement ---

AllocBodies == { GoodBody, Body(TRUE, 0, TRUE, "m1", "", 0, <<>>) }

RandSuffixes == 1..MaxRand

\* the day's counter is absent, or stands at 998 after earlier placements
InitAlloc ==
  /\ InitCommon
  /\ \/ counters = NoCounters /\ orders \in { EmptyBag, TakenStore }
     \/ counters = (dateStrYMD(1) :> 998) /\ orders = EmptyBag

\* the retry loops of the counter-based route and of the scan-based handler
NextRetry ==
  \/ \E r \in Reqs, b \in AllocBodies : PlaceBegin(r, b)
  \/ \E r \in Reqs : PlaceInc(r)
  \/ \E r \in Reqs : PlaceFind(r)
  \/ \E r \in Reqs : PlaceSave(r)
  \/ \E r \in Reqs, b \in AllocBodies : ScanBegin(r, b)
  \/ \E r \in Reqs : ScanGen(r)
  \/ \E r \in Reqs : ScanFind(r)
  \/ \E r \in Reqs : ScanSave(r)

SpecRetry == InitAlloc /\ [][NextRetry]_vars

\* the counter-based route across midnight
NextCounter ==
  \/ \E r \in Reqs, b \in AllocBodies : PlaceBegin(r, b)
  \/ \E r \in Reqs : PlaceInc(r)
  \/ \E r \in Reqs : PlaceFind(r)
  \/ \E r \in Reqs : PlaceSave(r)
  \/ Tick

\* identifier 001 of day 1 taken by an earlier fallback placement
OneTaken == SetToBag({NewOrder(FormatOrderId(dateStrYMD(1), 1), GoodBody, "confirmed", 1)})

InitCounter ==
  /\ InitCommon
  /\ \/ counters = NoCounters /\ orders \in { EmptyBag, OneTaken }
     \/ counters = (dateStrYMD(1) :> 998) /\ orders = EmptyBag

SpecCounter == InitCounter /\ [][NextCounter]_vars

\* --- placement through every handler, with the bodies a client may send ---

\* an identifier a client of POST /place-order may send: the first one the
\* counter-based allocator issues on day 1
ClientId == FormatOrderId(dateStrYMD(1), 1)

PlaceBodies ==
  { GoodBody,
    Body(TRUE, 100, TRUE, "m1", "", 0, <<>>),
    Body(TRUE, 130, TRUE, "m1", "booked", 0, <<>>),
    Body(FALSE, 130, TRUE, "m1", "", 0, <<>>),
    Body(TRUE, 0, TRUE, "m1", "", 0, <<>>),
    Body(TRUE, 130, FALSE, "m1", "", 0, <<>>) }

PlaceOrderBodies ==
  { [b EXCEPT !.orderId = id] : b \in PlaceBodies, id \in {<<>>, ClientId} }

InitPlace ==
  /\ InitCommon
  /\ counters = NoCounters
  /\ orders = EmptyBag

NextPlace ==
  \/ \E r \in Reqs, b \in PlaceBodies : PlaceBegin(r, b)
  \/ \E r \in Reqs : PlaceInc(r)
  \/ \E r \in Reqs : PlaceFind(r)
  \/ \E r \in Reqs : PlaceSave(r)
  \/ \E r \in Reqs, b \in PlaceBodies : ScanBegin(r, b)
  \/ \E r \in Reqs : ScanGen(r)
  \/ \E r \in Reqs : ScanFind(r)
  \/ \E r \in Reqs : ScanSave(r)
  \/ \E b \in PlaceBodies, rnd \in RandSuffixes : createOrderSimple(b, rnd)
  \/ \E b \in PlaceOrderBodies : PlaceOrderRoute(b)

SpecPlace == InitPlace /\ [][NextPlace]_vars

\* --- the fallback placement beside the counter-based route ---

NextFallback ==
  \/ \E r \in Reqs, b \in AllocBodies : PlaceBegin(r, b)
  \/ \E r \in Reqs : PlaceInc(r)
  \/ \E r \in Reqs : PlaceFind(r)
  \/ \E r \in Reqs : PlaceSave(r)
  \/ \E b \in AllocBodies, rnd \in RandSuffixes : createOrderSimple(b, rnd)

SpecFallback == InitPlace /\ [][NextFallback]_vars

\* --- the life of an order after placement ---

Mobiles == {"m1", "m2"}

LifeBodies == { [GoodBody EXCEPT !.mobile = m] : m \in Mobiles }

LifeOrderBodies ==
  { [GoodBody EXCEPT !.orderId = ClientId, !.status = st] :
      st \in {"", "payment_verified", "booked"} }

\* the identifiers the requests name
LifeIds == { ClientId }

Targets == {"", "confirmed", "payment_verified", "booked", "delivered"}

\* bodies of update-status requests: a status alone (or nothing), and
\* transport fields with or without a status
UpdateBodies ==
  { [status |-> st, transportName |-> "unset", lrNumber |-> "unset"] : st \in Targets }
    \cup
  { [status |-> st, transportName |-> tn, lrNumber |-> lr] :
      st \in {"", "confirmed"},
      tn \in {"unset", "VRL"}, lr \in {"", "LR7"} }

\* bodies of upload requests: the mobile and whether a file is attached
UploadBodies ==
  { [mobile |-> m, hasFile |-> TRUE] : m \in Mobiles \cup {""} }
    \cup { [mobile |-> "m1", hasFile |-> FALSE] }

NextLife ==
  \/ \E b \in LifeBodies : createOrderSimple(b, 1)
  \/ \E b \in LifeOrderBodies : PlaceOrderRoute(b)
  \/ \E j \in Jobs, id \in LifeIds, b \in UpdateBodies :
       UpdateStatusBegin(j, id, b.status, b.transportName, b.lrNumber)
  \/ \E j \in Jobs : UpdateStatusWrite(j)
  \/ \E id \in LifeIds, v \in {"true", "false", ""} : VerifyPayment(id, v)
  \/ \E j \in Jobs, id \in LifeIds, b \in UploadBodies :
       UploadBegin(j, id, b.mobile, b.hasFile)
  \/ \E j \in Jobs : UploadWrite(j)
  \/ \E id \in LifeIds : CancelOrder(id)
  \/ \E id \in LifeIds, m \in Mobiles : TrackOrder(id, m)

SpecLife == InitPlace /\ [][NextLife]_vars

\* --- one placement, one status update and the catalog side by side ---

\* bodies of update-status requests: nothing, a status, a carrier name
ValidUpdateBodies ==
  { [status |-> "", transportName |-> "unset", lrNumber |-> ""],
    [status |-> "payment_verified", transportName |-> "unset", lrNumber |-> "unset"],
    [status |-> "", transportName |-> "VRL", lrNumber |-> "unset"] }

\* bodies of apply-discount requests: discount is a number or, say, a string
DiscountBodies ==
  { [isNumber |-> TRUE, value |-> v] : v \in {-1, 0, 30, 50, 100, 101} }
    \cup { [isNumber |-> FALSE, value |-> 50] }

ProductBody(name, price, category, hasImage) ==
  [name |-> name, price |-> price, category |-> category, hasImage |-> hasImage]

\* bodies of add-product requests
ProductBodies ==
  { ProductBody("p", 200, <<"a", " ", "b">>, TRUE),
    ProductBody("", 200, <<"a", " ", "b">>, TRUE),
    ProductBody("p", 0, <<"a", " ", "b">>, TRUE),
    ProductBody("p", 200, <<>>, TRUE),
    ProductBody("p", 200, <<"a", " ", "b">>, FALSE) }

NextValid ==
  \/ \E b \in AllocBodies : PlaceBegin(1, b)
  \/ PlaceInc(1)
  \/ PlaceFind(1)
  \/ PlaceSave(1)
  \/ \E id \in LifeIds, b \in ValidUpdateBodies :
       UpdateStatusBegin(1, id, b.status, b.transportName, b.lrNumber)
  \/ UpdateStatusWrite(1)
  \/ \E id \in LifeIds, v \in {"true", ""} : VerifyPayment(id, v)
  \/ \E b \in ProductBodies : AddProduct(b)
  \/ \E d \in DiscountBodies : ApplyBegin(d)
  \/ ApplyStep
  \/ ApplyEnd

SpecValid == InitPlace /\ [][NextValid]_vars

\* --- the category name of one request, normalized ---

\* the characters of the category names: letters of either case, a digit,
\* and the three word separators
Chars == {"a", "A", "1", " ", "-", "_"}

Names == UNION {[1..n -> Chars] : n \in 1..MaxLen}

\* a request for the products of a category has arrived
InitNorm ==
  /\ today = 1
  /\ counters = NoCounters
  /\ orders = EmptyBag
  /\ req = [r \in Reqs |-> IdleReq]
  /\ job = [j \in Jobs |-> IdleJob]
  /\ last = NoLast
  /\ issued = <<>>
  /\ products = NoProducts
  /\ modelCache = NoCache
  /\ compiled = {}
  /\ disc = IdleDisc
  /\ pjob = [j \in Jobs |-> IdlePJob]
  /\ made = 0
  /\ IdleDirectory
  /\ call \in {[category |-> n, modelName |-> <<>>, pc |-> "pending"] : n \in Names}

NextNorm == call.pc = "pending" /\ ListByCategory(call.category)

SpecNorm == InitNorm /\ [][NextNorm]_vars

\* --- the model cache under the requests that resolve a category ---

\* names that share an identifier, and names that do not
CacheNames ==
  { <<"a", " ", "b">>, <<"A", "_", "B">>, <<"a", " ", " ", "B">>,
    <<"a", "-", "b">>, <<"A", "_", "_", "B">>, <<"a">> }

NextCache ==
  \/ \E n \in CacheNames : ListByCategory(n)
  \/ \E n \in {<<"a", " ", "b">>, <<"A", "_", "_", "B">>} :
       AddProduct(ProductBody("p", 200, n, TRUE))
  \/ ApplyBegin([isNumber |-> TRUE, value |-> 50])
  \/ ApplyStep
  \/ ApplyEnd

SpecCache == InitPlace /\ [][NextCache]_vars

\* --- a discount applied to a catalog that is already filled ---

\* product documents as the earlier schema (with original_price) stored
\* them: one with an original price, one without, and one whose discounted
\* price can be a tie
PoolProducts ==
  { [id |-> 1, name |-> "p", price |-> 200, original |-> {200}],
    [id |-> 2, name |-> "q", price |-> 7, original |-> {}],
    [id |-> 3, name |-> "r", price |-> 5, original |-> {5}] }

\* the collections of the categories "a b", "a_ b" and "a-b"
PoolCollections ==
  { <<"A", "_", "B">>, <<"A", "_", "_", "B">>, <<"A", "-", "B">> }

\* what a collection of the catalogs holds: every document, the ones that
\* lead to no tie, or the one that does
PoolContents ==
  { PoolProducts, {p \in PoolProducts : p.id # 3}, {p \in PoolProducts : p.id = 3} }

\* the catalogs: some of the collections, each with some of the documents
PoolStores ==
  UNION { [C -> PoolContents] : C \in SUBSET PoolCollections }

InitDiscount ==
  /\ today = 1
  /\ counters = NoCounters
  /\ orders = EmptyBag
  /\ req = [r \in Reqs |-> IdleReq]
  /\ job = [j \in Jobs |-> IdleJob]
  /\ last = NoLast
  /\ issued = <<>>
  /\ products \in PoolStores
  /\ modelCache = NoCache
  /\ compiled = {}
  /\ call = NoCall
  /\ disc = IdleDisc
  /\ pjob = [j \in Jobs |-> IdlePJob]
  /\ made = 0
  /\ IdleDirectory

NextDiscount ==
  \/ \E d \in DiscountBodies : ApplyBegin(d)
  \/ ApplyStep
  \/ ApplyFault
  \/ ApplyEnd

SpecDiscount == InitDiscount /\ [][NextDiscount]_vars

\* --- discounts applied one after the other ---

\* product documents as the earlier schema stored them: one entered at a
\* reduced price beside its original price, and one without original price
RepeatProducts ==
  { [id |-> 1, name |-> "p", price |-> 180, original |-> {200}],
    [id |-> 2, name |-> "q", price |-> 7, original |-> {}] }

\* the collections of the categories "a b" and "a_ b"
RepeatCollections == { <<"A", "_", "B">>, <<"A", "_", "_", "B">> }

\* the catalogs: some of the collections, each with both documents or with
\* the first
RepeatStores ==
  UNION { [C -> {RepeatProducts, {p \in RepeatProducts : p.id = 1}}] :
            C \in SUBSET RepeatCollections }

InitRepeat ==
  /\ today = 1
  /\ counters = NoCounters
  /\ orders = EmptyBag
  /\ req = [r \in Reqs |-> IdleReq]
  /\ job = [j \in Jobs |-> IdleJob]
  /\ last = NoLast
  /\ issued = <<>>
  /\ products \in RepeatStores
  /\ modelCache = NoCache
  /\ compiled = {}
  /\ call = NoCall
  /\ disc = IdleDisc
  /\ pjob = [j \in Jobs |-> IdlePJob]
  /\ made = 0
  /\ IdleDirectory

NextRepeat ==
  \/ \E d \in DiscountBodies : ApplyBegin(d)
  \/ ApplyStep
  \/ ApplyEnd

SpecRepeat == InitRepeat /\ [][NextRepeat]_vars

\* --- products added with an original price, then discounted ---

\* bodies of add-product requests that carry original_price (the set of
\* its values) beside a reduced price
OriginalBodies ==
  { [name |-> "p", price |-> 180, original |-> {200}, category |-> n,
     hasImage |-> TRUE] : n \in { <<"a", " ", "b">>, <<"b">> } }

NextKeep ==
  \/ \E b \in OriginalBodies : AddProduct(b)
  \/ \E d \in DiscountBodies : ApplyBegin(d)
  \/ ApplyStep
  \/ ApplyEnd

SpecKeep == InitPlace /\ [][NextKeep]_vars

\* --- one product update on a catalog filled by add-product requests ---

\* the categories of the catalog requests
UpdateNames == { <<"a", " ", "b">>, <<"b">> }

\* the identifiers the requests name: the ones generated, and one more
ProductIds == 1..MaxId

NextUpdate ==
  \/ \E n \in UpdateNames : AddProduct(ProductBody("p", 200, n, TRUE))
  \/ \E id \in ProductIds, n \in UpdateNames \cup {<<>>}, price \in {{}, {150}} :
       UpdateProductBegin(1, id, n, price)
  \/ UpdateProductFind(1)
  \/ UpdateProductCreate(1)
  \/ UpdateProductDeleteOld(1)
  \/ UpdateProductWrite(1)

SpecUpdate == InitPlace /\ [][NextUpdate]_vars

\* --- concurrent product updates, with storage faults during a move ---

\* the name of the product of the add-product request: one product, which
\* the update requests move
MoveProducts == {"p"}

\* the names stored in the catalog
StoredNames(store) == {p.name : p \in UNION {store[c] : c \in DOMAIN store}}

NextMove ==
  \/ \E n \in UpdateNames, nm \in MoveProducts \ StoredNames(products) :
       AddProduct(ProductBody(nm, 200, n, TRUE))
  \/ \E j \in Jobs, id \in 1..made, n \in UpdateNames \cup {<<>>} :
       UpdateProductBegin(j, id, n, {})
  \/ \E j \in Jobs : UpdateProductFind(j)
  \/ \E j \in Jobs : UpdateProductCreate(j)
  \/ \E j \in Jobs : UpdateProductDeleteOld(j)
  \/ \E j \in Jobs : UpdateProductWrite(j)
  \/ \E j \in Jobs : UpdateProductFault(j)

SpecMove == InitPlace /\ [][NextMove]_vars

\* --- concurrent product deletes on a catalog filled by add-product ---

\* a category, and one whose collection name has two adjacent underscores
DeleteNames == { <<"a", " ", "b">>, <<"a", "_", " ", "b">> }

\* a delete request names an identifier that was generated, or 0 for one
\* that never was
NextDelete ==
  \/ \E n \in DeleteNames : AddProduct(ProductBody("p", 200, n, TRUE))
  \/ \E j \in Jobs, id \in 0..made : DeleteProductBegin(j, id)
  \/ \E j \in Jobs : DeleteProductStep(j)

SpecDelete == InitPlace /\ [][NextDelete]_vars

\* --- the category directory under concurrent requests ---

\* names of the create requests: two spellings of one category, another
\* category, and a blank name
DirectoryNames == { <<"a">>, <<"A", " ">>, <<"b">>, <<" ">> }

\* names of the remove requests
RemoveNames == { <<"A">>, <<"B">>, <<>> }

NextDirectory ==
  \/ \E j \in Jobs, n \in DirectoryNames : AddCategoryBegin(j, n)
  \/ \E j \in Jobs : AddCategorySave(j)
  \/ \E j \in Jobs, n \in RemoveNames : RemoveCategoryBegin(j, n)
  \/ \E j \in Jobs : RemoveCategoryWrite(j)
  \/ ListCategories
  \/ AddProduct(ProductBody("p", 200, <<"a">>, TRUE))

SpecDirectory == InitPlace /\ [][NextDirectory]_vars

\* --- the directory with create, edit, remove and list requests ---

\* names of the create requests: two spellings of one category, and a
\* blank name
PermanentNames == { <<"a">>, <<"A", " ">>, <<" ">> }

\* names of the edit and remove requests: the category, and one that is
\* never created
StoredNamesAsked == { <<"A">>, <<"B">> }

\* display names of the edit requests
DisplayNames == { <<"b">>, <<" ">> }

NextPermanent ==
  \/ \E j \in Jobs, n \in PermanentNames : AddCategoryBegin(j, n)
  \/ \E j \in Jobs : AddCategorySave(j)
  \/ \E j \in Jobs, n \in StoredNamesAsked, dn \in DisplayNames :
       EditCategoryBegin(j, n, dn)
  \/ \E j \in Jobs : EditCategoryWrite(j)
  \/ \E j \in Jobs, n \in StoredNamesAsked : RemoveCategoryBegin(j, n)
  \/ \E j \in Jobs : RemoveCategoryWrite(j)
  \/ ListCategories

SpecPermanent == InitPlace /\ [][NextPermanent]_vars

---------------------------------------------------------------------------
(* Properties of identifier allocation and placement *)

PlacedBy(r) == req[r].op = "place" /\ req[r].resp = "Created"

\* the documents of the store that carry identifier id, with multiplicity
CopiesOfId(store, id) ==
  BagCardinality([o \in Matching(store, id) |-> CopiesIn(o, store)])

\* C1: the identifiers the counter-based route returns to requests of one
\* calendar day are pairwise distinct, and each returned identifier is the
\* identifier of exactly one persisted order, which holds that request's data
C1_ReturnedIdsDistinct ==
  /\ \A r, q \in Reqs :
       (r # q /\ PlacedBy(r) /\ PlacedBy(q) /\ req[r].dateStr = req[q].dateStr)
         => req[r].orderId # req[q].orderId
  /\ \A r \in Reqs :
       PlacedBy(r) =>
         /\ CopiesOfId(orders, req[r].orderId) = 1
         /\ \A o \in Matching(orders, req[r].orderId) :
              o.items = req[r].body.items /\ o.total = req[r].body.total

\* two requests that overlapped on the same day both got their identifier
C1_Witness ==
  \E r, q \in Reqs :
    /\ r < q /\ PlacedBy(r) /\ PlacedBy(q)
    /\ req[r].dateStr = req[q].dateStr
    /\ \E i, k \in 1..Len(issued) :
         i < k /\ issued[i].id = req[q].orderId /\ issued[k].id = req[r].orderId

\* the six digits YYMMDD of day i, computed digit by digit
PrefixOfDay(i) ==
  LET y == Clock(i).year % 100
      m == Clock(i).month + 1
      d == Clock(i).date
  IN << y \div 10, y % 10, m \div 10, m % 10, d \div 10, d % 10 >>

SuffixOf(id) == SubSeq(id, 7, Len(id))

\* C8: every identifier the counter-based allocator issues starts with the
\* date the server clock showed when the allocator was called; the first
\* allocation of a day has suffix 001; and among the allocations of one day,
\* in the order the increments are applied, each suffix is a larger number
\* than all earlier ones
C8_PrefixAndMonotonic ==
  /\ \A i \in 1..Len(issued) :
       /\ Len(issued[i].id) >= 6
       /\ SubSeq(issued[i].id, 1, 6) = PrefixOfDay(issued[i].readOn)
       /\ issued[i].fresh => SuffixOf(issued[i].id) = <<0, 0, 1>>
  /\ \A i, k \in 1..Len(issued) :
       (i < k /\ issued[i].key = issued[k].key)
         => parseInt(SuffixOf(issued[i].id)) < parseInt(SuffixOf(issued[k].id))

\* allocations of both days, two of them on the second day, one of them
\* called before midnight and applied after it
C8_Witness ==
  \E i, k \in 1..Len(issued) :
    /\ i < k /\ issued[i].key = issued[k].key
    /\ issued[i].fresh /\ issued[i].readOn = 2
    /\ \E n \in 1..Len(issued) : n > i /\ issued[n].readOn = 1

\* C9 (as claimed): every identifier issued by the counter-based allocator
\* is the 6-digit date followed by exactly 3 digits
C9_ThreeDigitSuffix ==
  \A i \in 1..Len(issued) : Len(issued[i].id) = 6 + 3

\* C10: the counter-based route calls the allocator at most 5 times and
\* the scan-based handler generates at most 11 candidates per request; the
\* counter-based route answers IdentifierExhausted exactly when 5
\* candidates were found in the store, the scan-based handler exactly when
\* it generated its 11th candidate; and the step that answers so persists
\* nothing
C10_RetryBounded ==
  /\ [](\A r \in Reqs :
          /\ req[r].op = "place" =>
               /\ req[r].calls <= 5
               /\ req[r].attempts <= req[r].calls
               /\ req[r].attempts = 5 <=> req[r].resp = "IdentifierExhausted"
          /\ req[r].op = "scan" =>
               /\ req[r].calls <= 11
               /\ req[r].calls = 11 <=> req[r].resp = "IdentifierExhausted")
  /\ [][\A r \in Reqs :
          (req'[r].resp = "IdentifierExhausted" /\ req[r].resp = "none")
            => (orders' = orders /\ req[r].pc \in {"find", "gen"})]_vars

\* one request of each route gave up, and the store is as it was
C10_Witness ==
  \E r, q \in Reqs :
    /\ req[r].op = "place" /\ req[r].resp = "IdentifierExhausted" /\ req[r].calls = 5
    /\ req[q].op = "scan" /\ req[q].resp = "IdentifierExhausted" /\ req[q].calls = 11
    /\ orders = TakenStore

RECURSIVE SumItems(_)
\* the sum of price x quantity over the line items
SumItems(items) ==
  IF Len(items) = 0 THEN 0
  ELSE items[1].price * items[1].quantity + SumItems(Tail(items))

\* C6 (as claimed): every persisted order's total equals the sum of its
\* line-item subtotals, a placement with another total being rejected
C6_TotalMatchesItems ==
  \A o \in Docs(orders) : o.total = SumItems(o.items)

\* C7 (as claimed): every order a placement handler persists has status
\* confirmed, whatever status the body carries (under SpecPlace no other
\* handler touches the order after its placement)
C7_PlacedConfirmed ==
  \A o \in Docs(orders) : o.status = "confirmed"

---------------------------------------------------------------------------
(* Properties of the status state machine *)

\* the transition table as the specification gives it
AllowedTargets ==
  [ confirmed        |-> {"payment_verified", "booked"},
    payment_verified |-> {"booked"},
    booked           |-> {"booked"} ]

StatusOnly == {st \in Targets : st # ""}

\* C2: an updateStatus request with a status and no transport fields, for
\* an order whose status is in the table and does not allow the target, is
\* answered InvalidTransition and changes neither the order store nor any
\* pending write
C2_InvalidTransitionRejected ==
  [][\A j \in Jobs, id \in LifeIds, st \in StatusOnly :
       ( /\ UpdateStatusBegin(j, id, st, "unset", "unset")
         /\ \E o \in Matching(orders, id) :
              o.status \in DOMAIN AllowedTargets /\ st \notin AllowedTargets[o.status] )
       => ( /\ last' = [op |-> "updateStatus", resp |-> "InvalidTransition",
                        orderId |-> id]
            /\ orders' = orders
            /\ job' = job )]_vars

\* a booked order with transport data, and an updateStatus just rejected
C2_Witness ==
  /\ last.op = "updateStatus" /\ last.resp = "InvalidTransition"
  /\ \E o \in Matching(orders, last.orderId) :
       o.status = "booked" /\ o.transportName = "VRL"
  /\ \A j \in Jobs : job[j].pc = "idle"

\* C3 (as claimed): the status a status-path updateStatus writes is an
\* allowed successor of the status the order holds at the moment of the write
C3_WriteIsAllowedSuccessor ==
  [][\A j \in Jobs :
       (UpdateStatusWrite(j) /\ job[j].pc = "write")
         => \A o \in Matching(orders, job[j].orderId) :
              /\ o.status \in DOMAIN AllowedTargets
              /\ job[j].status \in AllowedTargets[o.status]]_vars

\* C4: an updateStatus request that carries a carrier name or a waybill
\* number, for an existing order in any status and with any status value in
\* the body, leaves the order booked with both transport fields stored, an
\* absent or empty one as the empty string
C4_TransportForcesBooked ==
  [][\A j \in Jobs, id \in LifeIds, b \in UpdateBodies :
       ( /\ b.transportName = "VRL" \/ b.lrNumber = "LR7"
         /\ Exists(orders, id)
         /\ UpdateStatusBegin(j, id, b.status, b.transportName, b.lrNumber) )
       => ( /\ Exists(orders', id)
            /\ \A o \in Matching(orders', id) :
                 /\ o.status = "booked"
                 /\ o.transportName = (IF b.transportName = "VRL" THEN "VRL" ELSE "")
                 /\ o.lrNumber = (IF b.lrNumber = "LR7" THEN "LR7" ELSE "")
            /\ last'.resp = "Ok"
            /\ job' = job )]_vars

\* an order whose payment was verified, then booked by a waybill number alone
C4_Witness ==
  /\ last.op = "updateStatus" /\ last.resp = "Ok"
  /\ \E o \in Matching(orders, last.orderId) :
       /\ o.status = "booked" /\ o.verified = "true"
       /\ o.transportName = "" /\ o.lrNumber = "LR7"

C11_CancelRemovesOnce ==
  [][\A id \in LifeIds :
       CancelOrder(id)
         => IF Exists(orders, id)
              THEN /\ ~Exists(orders', id)
                   /\ last' = [op |-> "cancelOrder", resp |-> "Ok", orderId |-> id]
                   /\ \A o \in Docs(orders) : o.orderId # id => o \in Docs(orders')
              ELSE /\ last' = [op |-> "cancelOrder", resp |-> "NotFound",
                               orderId |-> id]
                   /\ orders' = orders]_vars

\* an order was cancelled while a status update that had validated against
\* it was still waiting to write
C11_Witness ==
  /\ last.op = "cancelOrder" /\ last.resp = "Ok"
  /\ ~Exists(orders, last.orderId)
  /\ \E j \in Jobs : job[j].pc = "write" /\ job[j].orderId = last.orderId
                     /\ job[j].status = "booked"

\* C12 (as claimed): an upload for an identifier and a mobile that no order
\* carries together answers NotFound and modifies no order; an upload that
\* answers Ok has attached the screenshot, with verified false, to an order
\* of that identifier, whose status the write leaves as it was
C12_UploadAttachesForOwner ==
  [][/\ \A j \in Jobs, id \in LifeIds, b \in UploadBodies :
          ( /\ UploadBegin(j, id, b.mobile, b.hasFile)
            /\ b.mobile # "" /\ b.hasFile
            /\ ~\E o \in Matching(orders, id) : o.mobile = b.mobile )
          => ( /\ last' = [op |-> "uploadPayment", resp |-> "NotFound",
                           orderId |-> id]
               /\ orders' = orders /\ job' = job )
     /\ \A j \in Jobs :
          ( UploadWrite(j) /\ job[j].pc = "attach" /\ last'.resp = "Ok" )
          => \E o \in Matching(orders', job[j].orderId) :
               /\ o.image = "img" /\ o.verified = "false"
               /\ \E p \in Matching(orders, job[j].orderId) : p.status = o.status]_vars

---------------------------------------------------------------------------
(* Properties of the requests' side effects *)

\* C13 (as claimed): a placement that has saved its order answers Created
\* with the order's identifier, and an update of the status or the transport
\* fields that was applied answers Ok, whatever happens to the invoice
\* directory, the invoice, the email and the push notification
C13_BestEffortNeverFails ==
  [][/\ \A r \in Reqs :
          ( PlaceSave(r) /\ req[r].pc = "save"
            /\ ~Exists(orders, req[r].orderId) /\ Exists(orders', req[r].orderId) )
          => ( req'[r].resp = "Created" /\ req'[r].orderId = req[r].orderId )
     /\ \A j \in Jobs :
          ( UpdateStatusWrite(j) /\ job[j].pc = "write"
            /\ Exists(orders, job[j].orderId) )
          => last'.resp = "Ok"
     /\ \A j \in Jobs, id \in LifeIds :
          ( UpdateStatusBegin(j, id, "", "VRL", "unset") /\ Exists(orders, id) )
          => last'.resp = "Ok"]_vars

\* what a rejected request must leave alone
StoredStateUnchanged ==
  orders' = orders /\ counters' = counters /\ products' = products

\* C14: a placement without items, total or customer details answers
\* MissingFields, ends there and leaves orders, counters and products as
\* they were; so do an update-status request with neither a status nor a
\* transport field, a verify-payment request whose verified is no boolean,
\* an apply-discount request whose discount is no number or lies outside
\* 0..100, and an add-product request with a required field missing
C14_RejectedChangesNothing ==
  [][/\ \A r \in Reqs, b \in AllocBodies :
          ( PlaceBegin(r, b) /\ (~b.hasItems \/ b.total = 0 \/ ~b.hasCustomer) )
          => ( /\ req'[r].resp = "MissingFields" /\ req'[r].pc = "done"
               /\ StoredStateUnchanged )
     /\ \A j \in Jobs, id \in LifeIds, lr \in {"unset", ""} :
          UpdateStatusBegin(j, id, "", "unset", lr)
          => ( last'.resp = "BadRequest" /\ job' = job /\ StoredStateUnchanged )
     /\ \A id \in LifeIds :
          VerifyPayment(id, "")
          => ( last'.resp = "BadRequest" /\ StoredStateUnchanged )
     /\ \A d \in DiscountBodies :
          ( ApplyBegin(d) /\ (~d.isNumber \/ d.value < 0 \/ d.value > 100) )
          => ( last'.resp = "InvalidDiscount" /\ disc' = disc /\ StoredStateUnchanged )
     /\ \A b \in ProductBodies :
          ( AddProduct(b)
            /\ (b.name = "" \/ b.price = 0 \/ b.category = <<>> \/ ~b.hasImage) )
          => ( last'.resp = "MissingFields" /\ StoredStateUnchanged )]_vars

\* a placement was rejected and the day's counter was never created; a
\* product is stored and the latest discount request was rejected
C14_Witness ==
  /\ \E r \in Reqs : req[r].resp = "MissingFields"
  /\ counters = NoCounters
  /\ products # NoProducts
  /\ last.op = "applyDiscount" /\ last.resp = "InvalidDiscount"

---------------------------------------------------------------------------
(* Properties of the order record *)

\* the part of an order the specification calls immutable
Placed(o) == [orderId |-> o.orderId, items |-> o.items, total |-> o.total,
              mobile |-> o.mobile]

PlacedSet(store) == {Placed(o) : o \in Docs(store)}

\* C15: in every step the identifier, line items, total and customer
\* details of every order stay as placed: a step either keeps them all, or
\* adds one order and is a placement, or takes one away and is a cancel
C15_PlacedFieldsImmutable ==
  [][\/ PlacedSet(orders') = PlacedSet(orders)
     \/ /\ PlacedSet(orders) \subseteq PlacedSet(orders')
        /\ Cardinality(PlacedSet(orders')) = Cardinality(PlacedSet(orders)) + 1
        /\ last'.op \in {"simple", "placeOrder"} /\ last'.resp = "Created"
     \/ /\ PlacedSet(orders') \subseteq PlacedSet(orders)
        /\ Cardinality(PlacedSet(orders')) = Cardinality(PlacedSet(orders)) - 1
        /\ last'.op = "cancelOrder" /\ last'.resp = "Ok"]_vars

\* an order that went through upload, verification and booking and still
\* carries what it was placed with
C15_Witness ==
  \E o \in Docs(orders) :
    /\ o.status = "booked" /\ o.image = "img" /\ o.verified = "true"
    /\ o.transportName = "VRL"
    /\ o.items = Items2 /\ o.total = 130 /\ o.mobile = "m2"

---------------------------------------------------------------------------
(* Properties of the partition registry *)

\* a character with its case and its kind of separator forgotten
FoldChar(c) == IF c \in {" ", "-", "_"} THEN "_" ELSE IF c = "a" THEN "A" ELSE c

RECURSIVE Trim(_)
\* a name without the spaces around it
Trim(x) ==
  IF Len(x) > 0 /\ x[1] = " " THEN Trim(Tail(x))
  ELSE IF Len(x) > 0 /\ x[Len(x)] = " " THEN Trim(SubSeq(x, 1, Len(x) - 1))
  ELSE x

\* two names differ only in letter case, in surrounding whitespace and in
\* the separator used between words
SameCategory(x, y) ==
  LET fx == Trim(x)
      fy == Trim(y)
  IN Len(fx) = Len(fy) /\ \A i \in 1..Len(fx) : FoldChar(fx[i]) = FoldChar(fy[i])

\* C16 (as claimed): every name that differs from the requested one only in
\* case, surrounding whitespace or word separator has the identifier the
\* request resolved to
C16_SeparatorsAndCaseAgree ==
  call.pc = "done" =>
    \A y \in Names : SameCategory(y, call.category) => modelName(y) = call.modelName

\* C17: the identifier a request resolved to is its own normal form
C17_NormalizeIdempotent ==
  call.pc = "done" => modelName(call.modelName) = call.modelName

\* a name with whitespace on both sides of a lower-case letter was resolved
C17_Witness ==
  /\ call.pc = "done"
  /\ call.category = <<" ", "a", " ">>
  /\ call.modelName = <<"_", "A", "_">>

\* C18 (as claimed): every identifier resolve has derived, and so every
\* cache entry and partition, passes the pattern test of the partition scan
C18_IdentifierMatchesPattern ==
  /\ \A k \in DOMAIN modelCache : MatchesPattern(k)
  /\ call.pc = "done" => MatchesPattern(call.modelName)

\* C19: no resolve fails; the cache holds under every identifier one handle,
\* which addresses the collection of that name, and the identifier of the
\* latest resolve is in the cache; a step adds at most one entry and leaves
\* every entry there is in place and unchanged, so a later resolve of the
\* identifier returns the handle the first one created
C19_CacheGetOrCreate ==
  /\ [](/\ call.pc # "threw"
        /\ call.pc = "done" => call.modelName \in DOMAIN modelCache
        /\ \A k \in DOMAIN modelCache : modelCache[k].collection = k
        /\ \A k, x \in DOMAIN modelCache :
             modelCache[k].serial = modelCache[x].serial => k = x)
  /\ [][/\ \A k \in DOMAIN modelCache :
             k \in DOMAIN modelCache' /\ modelCache'[k] = modelCache[k]
        /\ Cardinality(DOMAIN modelCache') <= Cardinality(DOMAIN modelCache) + 1]_vars

\* the latest request named "a b" and got the handle made first, for A_B,
\* after handles for two other identifiers were made
C19_Witness ==
  /\ call.pc = "done"
  /\ call.category = <<"a", " ", "b">>
  /\ call.modelName = <<"A", "_", "B">>
  /\ <<"A", "_", "B">> \in DOMAIN modelCache
  /\ modelCache[<<"A", "_", "B">>].serial = 1
  /\ Cardinality(DOMAIN modelCache) >= 3

\* C20: when apply-discount has answered Ok for a percent in [0,100], in
\* every collection that passed the pattern test every product with an
\* original price has the price nearest to original x (100 - percent) / 100
\* and every product without one has the price it had before.
C20_DiscountReachesEveryScannedPartition ==
  (disc.pc = "done" /\ last.op = "applyDiscount" /\ last.resp = "Ok") =>
    \A c \in DOMAIN disc.before :
      MatchesPattern(c) =>
        \A p \in disc.before[c] :
          \E q \in DocsIn(products, c) :
            /\ q.id = p.id
            /\ IF HasOriginal(p)
                 THEN \A o \in p.original :
                        100 * q.price - o * (100 - disc.discount) \in (-50)..50
                 ELSE q.price = p.price

\* the documents of collection c as the running discount request found
\* them, each with the price the discount gives it
RecomputedIn(c) ==
  \A p \in disc.before[c] :
    \E q \in DocsIn(products, c) :
      /\ q.id = p.id
      /\ IF HasOriginal(p)
           THEN \A o \in p.original :
                  100 * q.price - o * (100 - disc.discount) \in (-50)..50
           ELSE q.price = p.price

\* the documents whose price differs from the one the discount request found
ChangedIn(c) ==
  {p \in disc.before[c] : \A q \in DocsIn(products, c) : q.id = p.id => q.price # p.price}

\* C21: when apply-discount has ended after a storage fault in a
\* collection, it has answered with a count, every other collection that
\* passed the pattern test has its prices recomputed, and the count is the
\* number of documents updated in those collections.
C21_FaultIsolatedPerPartition ==
  (disc.pc = "done" /\ disc.faulted # {}) =>
    /\ last.op = "applyDiscount" /\ last.resp = "Ok"
    /\ \A c \in DOMAIN disc.before \ disc.faulted :
         MatchesPattern(c) => RecomputedIn(c)
    /\ disc.updated =
         Cardinality(UNION {{<<c, p>> : p \in ChangedIn(c)} :
                              c \in DOMAIN disc.before \ disc.faulted})

\* C22: an update that has succeeded and whose body had no category, or
\* the category of the collection the product was found in, has not moved
\* the product: the collection still has a document with the identifier of
\* the request, and no document was created.
C22_UpdateMovesOnlyOnCategoryChange ==
  \A j \in Jobs :
    ( /\ pjob[j].op = "update" /\ pjob[j].pc = "done"
      /\ pjob[j].resp \in {"Ok", "Moved"}
      /\ \/ pjob[j].category = <<>>
         \/ modelName(pjob[j].category) = pjob[j].found )
    => /\ pjob[j].resp = "Ok"
       /\ pjob[j].newId = 0
       /\ FindById(products, pjob[j].found, pjob[j].id) # {}

\* C23: a delete that succeeds removes the document with its identifier
\* from the collection that holds it and changes no other document; a
\* delete that answers NotFound changes nothing and no collection that
\* passes the pattern test holds the identifier; of the deletes of one
\* generated identifier one succeeds, and never two.
C23_DeleteRemovesExactlyOne ==
  /\ [](\A j \in Jobs :
         (pjob[j].op = "delete" /\ pjob[j].pc = "done") =>
           /\ pjob[j].resp = "Ok" =>
                \A i \in Jobs \ {j} :
                  ~(pjob[i].op = "delete" /\ pjob[i].id = pjob[j].id
                      /\ pjob[i].resp = "Ok")
           /\ (pjob[j].resp = "NotFound" /\ pjob[j].id >= 1) =>
                \E i \in Jobs \ {j} :
                  pjob[i].op = "delete" /\ pjob[i].id = pjob[j].id
                    /\ pjob[i].resp = "Ok")
  /\ [][\A j \in Jobs :
          (DeleteProductStep(j) /\ pjob'[j].pc = "done") =>
            IF pjob'[j].resp = "Ok"
              THEN \E c \in DOMAIN products :
                     /\ FindById(products, c, pjob[j].id) # {}
                     /\ products' = WithoutId(products, c, pjob[j].id)
              ELSE /\ products' = products
                   /\ \A c \in DOMAIN products :
                        MatchesPattern(c) => FindById(products, c, pjob[j].id) = {}]_vars

---------------------------------------------------------------------------
(* Properties of the order lifecycle, continued *)

\* C26: an order whose status is booked has status booked after every
\* step that leaves it in the store.
C26_BookedIsTerminal ==
  [][\A id \in LifeIds :
       (\E o \in Matching(orders, id) : o.status = "booked") =>
         \A o2 \in Matching(orders', id) : o2.status = "booked"]_vars

\* the store has an order with this identifier and this mobile number
Owned(store, id, mobile) == \E o \in Matching(store, id) : o.mobile = mobile

\* C27: a placement that succeeds stores an order under the identifier it
\* returns and the mobile number of its body; such an order stays in the
\* store until a cancel of its identifier succeeds; a track request
\* answers Ok when the store has an order with its identifier and its
\* mobile number, and otherwise the one NotFound response, whether or not
\* the identifier exists.
C27_TrackFindsOwnOrder ==
  [][/\ \A b \in LifeBodies :
          (createOrderSimple(b, 1) /\ last'.resp = "Created")
            => Owned(orders', last'.orderId, b.mobile)
     /\ \A id \in LifeIds, m \in Mobiles :
          /\ (Owned(orders, id, m) /\ ~Owned(orders', id, m))
               => last' = [op |-> "cancelOrder", resp |-> "Ok", orderId |-> id]
          /\ TrackOrder(id, m)
               => last' = [op |-> "track", orderId |-> id,
                           resp |-> IF Owned(orders, id, m) THEN "Ok"
                                    ELSE "NotFound"]]_vars

\* a track request named an order of the store with another mobile number
\* and got NotFound
C27_Witness ==
  /\ last.op = "track" /\ last.resp = "NotFound"
  /\ Exists(orders, last.orderId)

\* C28: no two orders of the store have the same identifier, and a
\* placement through createOrderSimple that succeeds returns an identifier
\* that no order had before and that exactly one order has afterwards.
C28_FallbackIdsUnique ==
  /\ [](\A o \in Docs(orders) : CopiesOfId(orders, o.orderId) = 1)
  /\ [][\A b \in AllocBodies, rnd \in RandSuffixes :
          (createOrderSimple(b, rnd) /\ last'.resp = "Created")
            => /\ ~Exists(orders, last'.orderId)
               /\ CopiesOfId(orders', last'.orderId) = 1]_vars

\* the fallback path placed an order under the first identifier of the day
\* and a request of the counter-based route, whose first identifier was
\* that one, placed its order under another
C28_Witness ==
  /\ last.op = "simple" /\ last.resp = "Created"
  /\ \E r \in Reqs :
       /\ PlacedBy(r) /\ req[r].orderId # last.orderId
       /\ req[r].calls > 1
       /\ Exists(orders, req[r].orderId) /\ Exists(orders, last.orderId)

\* the orders of day d whose identifier is dateStr and a two-digit suffix
ScanOrdersOfDay(store, d, dateStr) ==
  {o \in OrdersOfDay(store, d) :
     /\ Len(o.orderId) = Len(dateStr) + scanSuffixWidth
     /\ SubSeq(o.orderId, 1, Len(dateStr)) = dateStr}

\* C29: when the scan-based handler generates an identifier while orders of
\* the day exist, the identifier is the day's prefix and the suffix of the
\* latest of these orders plus one.
C29_ScanSuffixFollowsLatest ==
  [][\A r \in Reqs :
       ScanGen(r) =>
         LET S == ScanOrdersOfDay(orders, req[r].day, req[r].dateStr)
         IN S # {} =>
              \E o \in S :
                /\ IsLatest(o, S)
                /\ req'[r].orderId =
                     FormatScanId(req[r].dateStr,
                       parseInt(SubSeq(o.orderId, Len(req[r].dateStr) + 1,
                                       Len(o.orderId))) + 1)]_vars

\* C30: every order with status payment_verified has a screenshot record
\* whose verified flag is true, and every order with status booked has a
\* carrier name or an LR number.
C30_StatusMeansWhatItSays ==
  \A o \in Docs(orders) :
    /\ o.status = "payment_verified" => o.verified = "true"
    /\ o.status = "booked" => (Truthy(o.transportName) \/ Truthy(o.lrNumber))

---------------------------------------------------------------------------
(* Properties of the category directory *)

\* C24: no two category documents have the same name, and a create request
\* gets DuplicateCategory at each point where it meets a document with its
\* canonical name: at the lookup, and at the save when a concurrent request
\* has created the name in between.
C24_CanonicalNamesUnique ==
  /\ [](\A d, e \in categories : d.name = e.name => d = e)
  /\ [][\A j \in Jobs :
          /\ \A n \in DirectoryNames :
               ( AddCategoryBegin(j, n) /\ Len(trim(n)) > 0
                   /\ FindCategory(trimmedName(n)) # {} )
                 => last'.resp = "DuplicateCategory"
          /\ ( AddCategorySave(j) /\ FindCategory(cjob[j].name) # {} )
               => last'.resp = "DuplicateCategory"]_vars

\* C25: no step removes a category document or changes a stored name, and
\* every stored name is canonical; the write of a remove request clears the
\* active flag of the named document and leaves the products as they are;
\* the listing is the set of the canonical names of the active documents.
C25_RemoveIsSoft ==
  /\ [](\A d \in categories : trimmedName(d.displayName) = d.name)
  /\ [][/\ {d.name : d \in categories} \subseteq {d.name : d \in categories'}
        /\ \A j \in Jobs :
             RemoveCategoryWrite(j) =>
               /\ \E d \in categories' : d.name = cjob[j].name /\ ~d.isActive
               /\ Cardinality(categories') = Cardinality(categories)
               /\ products' = products
        /\ ListCategories =>
             listing' = {trimmedName(d.displayName) :
                           d \in {x \in categories : x.isActive}}]_vars

\* a listing after a category was removed: it names another category and
\* not the removed one, whose document and whose product are still there
C25_Witness ==
  /\ last.op = "listCategories"
  /\ listing = {<<"B">>}
  /\ \E d \in categories : d.name = <<"A">> /\ ~d.isActive
  /\ ProductCount(products) > 0

---------------------------------------------------------------------------
(* Properties of product moves *)

\* the number of products the add-product requests stored: every
\* identifier was generated by an add-product request or by the create of a
\* move
AddedCount == made - Cardinality({j \in Jobs : pjob[j].newId # 0})

\* no update request is under way, and none met a storage fault
UpdatesCompleted ==
  \A j \in Jobs : /\ pjob[j].pc \in {"idle", "done"}
                  /\ pjob[j].resp \in {"none", "Ok", "Moved", "NotFound"}

\* C31: once the update requests have completed, concurrent moves of one
\* product included, the catalog has as many product records as the
\* add-product requests stored, and every product name is stored in
\* exactly one record.
C31_UpdateKeepsRecordCount ==
  UpdatesCompleted =>
    /\ ProductCount(products) = AddedCount
    /\ \A nm \in StoredNames(products) :
         Cardinality({<<c, p>> \in UNION {{<<d, q>> : q \in products[d]} :
                                             d \in DOMAIN products} :
                        p.name = nm}) = 1

\* the product an update request read is stored in some collection
HeldSomewhere(j) ==
  \A d \in pjob[j].doc :
    \E c \in DOMAIN products : \E p \in products[c] : p.name = d.name

\* C32: a move never loses the product: from the read of the product on,
\* in every state of the move, after a storage fault at its create or at
\* its delete included, some collection holds a record of the product.
C32_MoveNeverLosesProduct ==
  \A j \in Jobs : pjob[j].op = "update" => HeldSomewhere(j)

\* a move has deleted the old record, another has stopped at a fault
\* between its create and its delete, and the product is still stored
C32_Witness ==
  /\ \E j \in Jobs : pjob[j].resp = "Moved"
  /\ \E j \in Jobs : pjob[j].resp = "InternalError" /\ pjob[j].newId # 0
  /\ C32_MoveNeverLosesProduct

---------------------------------------------------------------------------
(* Properties of the collection scans *)

\* C33: a fan-out operation acts on the collection it scanned: for every
\* collection name P that passes the pattern test, adjacent, leading or
\* trailing underscores included, the category the scans derive from P
\* (underscores to spaces) resolves to the model of collection P.
C33_ScanResolvesToScannedCollection ==
  \A P \in Names :
    ( /\ MatchesPattern(P)
      /\ call.pc = "done"
      /\ call.category = underscoresToSpaces(P) )
    => call.modelName = P

---------------------------------------------------------------------------
(* Properties of repeated discounts *)

\* the collections whose model a run of apply-discount on store updates
Reached(store) ==
  {modelName(underscoresToSpaces(c)) :
     c \in {x \in listCollections(store) : MatchesPattern(x)}}

\* store after a run of apply-discount with percent d that answers Ok
Discounted(store, d) ==
  [c \in DOMAIN store |->
     IF c \in Reached(store)
       THEN {[p EXCEPT !.price = CHOOSE v \in PricesAfter(p, d) : TRUE] : p \in store[c]}
       ELSE store[c]]

\* the percents apply-discount accepts among the ones of the requests
Percents == {d.value : d \in {x \in DiscountBodies : ~InvalidDiscount(x)}}

\* C34: when apply-discount has answered Ok, the prices are the ones
\* recomputed from the original prices; applying the same percent again
\* would leave every price (and so update no record); applying any percent
\* next gives what that percent alone would have given; percent 0 has set
\* the price of every product with an original price to that original
\* price; and no original price has changed.
C34_DiscountIdempotent ==
  (disc.pc = "done" /\ last.op = "applyDiscount" /\ last.resp = "Ok") =>
    /\ products = Discounted(disc.before, disc.discount)
    /\ Discounted(products, disc.discount) = products
    /\ \A d \in Percents : Discounted(products, d) = Discounted(disc.before, d)
    /\ disc.discount = 0 =>
         \A c \in DOMAIN products : \A p \in products[c] :
           HasOriginal(p) => p.price \in p.original
    /\ \A c \in DOMAIN disc.before : \A p \in disc.before[c] :
         \E q \in DocsIn(products, c) : q.id = p.id /\ q.original = p.original

---------------------------------------------------------------------------
(* Properties of deactivated categories *)

\* C35: deactivation is permanent: no step sets the active flag of a
\* document back to true, a listing made while a category is deactivated
\* does not name it, and a create request that arrives with the canonical
\* name of a deactivated category is answered DuplicateCategory and stores
\* nothing.
C35_DeactivationIsPermanent ==
  /\ [][\A d \in categories :
          ~d.isActive => \E e \in categories' : e.name = d.name /\ ~e.isActive]_vars
  /\ [][ListCategories =>
          \A d \in categories : ~d.isActive => d.name \notin listing']_vars
  /\ [][\A j \in Jobs, n \in PermanentNames :
          ( AddCategoryBegin(j, n)
              /\ \E d \in categories : d.name = trimmedName(n) /\ ~d.isActive )
            => /\ last'.resp = "DuplicateCategory"
               /\ categories' = categories
               /\ cjob' = cjob]_vars

\* a create request for "a" was answered DuplicateCategory while category
\* A is deactivated, after an edit gave it another display name
C35_Witness ==
  /\ last = [op |-> "addCategory", resp |-> "DuplicateCategory", orderId |-> <<"A">>]
  /\ \E d \in categories :
       d.name = <<"A">> /\ ~d.isActive /\ d.displayName = <<"b">>

---------------------------------------------------------------------------
(* Properties of the payment screenshot *)

\* C36: the write of an upload answers Ok only when the order is there at
\* the write and receives the screenshot; when the order was cancelled
\* after the ownership check, the write does not answer Ok and does not
\* create an order.
C36_UploadNeedsOrderAtWrite ==
  [][\A j \in Jobs :
       ( UploadWrite(j) /\ job[j].pc = "attach" ) =>
         /\ last'.resp = "Ok" =>
              /\ Exists(orders, job[j].orderId)
              /\ \E o \in Matching(orders', job[j].orderId) : o.image = "img"
         /\ ~Exists(orders, job[j].orderId) =>
              /\ last'.resp # "Ok"
              /\ ~Exists(orders', job[j].orderId)]_vars

---------------------------------------------------------------------------
(* Properties of the original price *)

\* C37: a product added with an original price is stored with it; so when
\* apply-discount has answered Ok, every product the request found has the
\* price nearest to its body's original price x (100 - percent) / 100, and
\* the count is the number of products whose price the request changed.
C37_InsertKeepsOriginalPrice ==
  /\ [][\A b \in OriginalBodies :
          ( AddProduct(b) /\ last'.resp = "Created" ) =>
            \E c \in DOMAIN products' : \E p \in products'[c] :
              p.id = made' /\ p.original = b.original]_vars
  /\ []( (disc.pc = "done" /\ last.op = "applyDiscount" /\ last.resp = "Ok") =>
           /\ \A c \in DOMAIN disc.before : \A p \in disc.before[c] :
                \E q \in DocsIn(products, c) : \E b \in OriginalBodies :
                  /\ q.id = p.id
                  /\ \A o \in b.original :
                       100 * q.price - o * (100 - disc.discount) \in (-50)..50
           /\ disc.updated =
                Cardinality(UNION {{<<c, p>> : p \in ChangedIn(c)} :
                                     c \in DOMAIN disc.before}) )

=============================================================================
